---------------------------- MODULE Spec2Model ----------------------------
(***************************************************************************)
(* redcent-tui: a terminal tool that lets an operator browse a catalogue   *)
(* of setup tasks, toggle selections and emit a shell script.              *)
(*                                                                         *)
(* Two programs live in the repository:                                    *)
(*   - the tree program   (src/src/main.rs + src/src/scripts.rs)           *)
(*   - the flat-list program (src/rdct.rs)                                 *)
(*                                                                         *)
(* Conventions of the model                                                *)
(*   - An Rc<RefCell<MenuNode>> is a node id: the index of the node in the *)
(*     arena menu_tree.  Rc::ptr_eq is equality of ids.  Ids are given in  *)
(*     the order in which the menu!/item! macros appear in                 *)
(*     build_menu_tree, the root being 1.                                  *)
(*   - A text (String holding a script) is the sequence of its lines, each *)
(*     line being terminated by '\n': push_str("a\n\n") appends            *)
(*     <<"a", "">>.  Every push of generate_commands ends in '\n', so the  *)
(*     representation is exact, and str::lines().count() is Len.           *)
(*   - Option<T>: None is <<>>, Some(x) is <<x>>.                          *)
(***************************************************************************)
EXTENDS Integers, Sequences, FiniteSets, TLC

VARIABLES
    \* ---- tree program: struct App (main.rs 88-97) ----
    state,                \* AppState
    menu_tree,            \* the arena of MenuNode, root = 1
    nav_path,             \* Vec<Rc<RefCell<MenuNode>>>
    selected_index,       \* usize
    os_distro,            \* OsDistribution
    reboot_requested,     \* bool
    filename_input,       \* String (sequence of characters)
    save_status_message,  \* Option<String>
    \* ---- tree program: control and environment ----
    pc,                   \* position in run_app / main
    outcome,              \* Option of the value returned by run_app
    io,                   \* the file-system effect of the last step, if any
    tmp_script,           \* Option of the content of /tmp/tui_install_script.sh
    executions,           \* how many times main launched sudo bash
    \* ---- flat-list program: struct App (rdct.rs 41-50) ----
    active_menu_item,     \* MenuItem
    repo_list,            \* Vec<(&str, bool)>
    virt_list,            \* Vec<(&str, bool)>
    desktop_list,         \* Vec<(&str, bool)>
    active_panel,         \* ActivePanel
    menu_index,           \* usize
    rd_selected_index,    \* usize (App::selected_index of rdct.rs)
    rd_os_distro,         \* OsDistribution (App::os_distro of rdct.rs)
    rd_pc,                \* position in run_app of rdct.rs
    rd_output             \* Option of the script printed on 'i' / 'r'

app_vars == <<state, menu_tree, nav_path, selected_index, os_distro,
              reboot_requested, filename_input, save_status_message>>
main_vars == <<tmp_script, executions>>
tree_vars == <<state, menu_tree, nav_path, selected_index, os_distro,
               reboot_requested, filename_input, save_status_message,
               pc, outcome, io, tmp_script, executions>>
rd_vars == <<active_menu_item, repo_list, virt_list, desktop_list,
             active_panel, menu_index, rd_selected_index, rd_os_distro,
             rd_pc, rd_output>>
vars == <<state, menu_tree, nav_path, selected_index, os_distro,
          reboot_requested, filename_input, save_status_message,
          pc, outcome, io, tmp_script, executions,
          active_menu_item, repo_list, virt_list, desktop_list,
          active_panel, menu_index, rd_selected_index, rd_os_distro,
          rd_pc, rd_output>>

(***************************************************************************)
(* Bounds of the model (not program constants).                            *)
(***************************************************************************)
\* The operator keeps at most this many leaves selected at the same time
\* in a whole session (Spec, SpecRdct) ...
MaxSelected == 1
\* ... and in a session that stays in the menu (SpecBrowse).
MaxSelectedBrowsing == 2
\* The operator types at most this many characters into the filename buffer.
MaxName == 1
\* ... and this many in a session without browsing (SpecMain).
MaxTyped == 2
\* The arbitrary catalogues of SpecTrees have at most this many nodes.
MaxNodes == 5

(***************************************************************************)
(* Generic helpers.                                                        *)
(***************************************************************************)
None == <<>>
Some(x) == <<x>>

Min(a, b) == IF a <= b THEN a ELSE b

Range(s) == {s[i] : i \in 1..Len(s)}

\* Vec::pop / String::pop: drop the last element, no-op on empty.
Pop(s) == IF Len(s) = 0 THEN s ELSE SubSeq(s, 1, Len(s) - 1)

Last(s) == s[Len(s)]

(***************************************************************************)
(* Enumerations.                                                           *)
(***************************************************************************)
OsDistribution == {"Rhel", "Centos", "Unknown"}
AppState == {"Running", "Finished", "Saving"}

(***************************************************************************)
(* scripts.rs: the script functions.  A script_fn is named by its path;    *)
(* calling it yields its text, here the lines of the &'static str.  The    *)
(* texts do not end in '\n': generate_commands pushes it.                  *)
(***************************************************************************)
call_script_fn(f) ==
    CASE f = "scripts_gnome::minimal_install" ->
           << "sudo dnf install -y gdm gnome-browser-connector",
              "sudo systemctl set-default graphical.target" >>
      [] f = "scripts_gnome::full_install" ->
           << "sudo dnf groupinstall -y 'Workstation'",
              "sudo systemctl set-default graphical.target" >>
      [] f = "scripts_sway::compile_from_source" ->
           << "# This is a complex process and requires many dependencies.",
              "# This script is a placeholder for the required commands.",
              "sudo dnf install -y ninja-build meson gcc wayland-devel wayland-protocols-devel libinput-devel libxcb-devel libxkbcommon-devel pixman-devel" >>
      [] f = "scripts_sway::install_wofi" ->
           << "sudo dnf install -y wofi" >>
      [] f = "scripts_repos::add_ceph" ->
           << "sudo dnf install -y ceph-common" >>
      [] f = "scripts_repos::add_crb" ->
           << "sudo dnf config-manager --set-enabled codeready-builder-for-rhel-10-rhui-rpms || sudo dnf config-manager --set-enabled crb" >>
      [] f = "scripts_repos::add_epel" ->
           << "sudo dnf install -y epel-release" >>
      [] f = "scripts_repos::add_flathub" ->
           << "sudo flatpak remote-add --if-not-exists flathub https://flathub.org/repo/flathub.flatpakrepo" >>
      [] f = "scripts_repos::add_rt" ->
           << "sudo dnf config-manager --set-enabled rt" >>
      [] f = "scripts_repos::add_ha" ->
           << "sudo dnf config-manager --set-enabled ha" >>
      [] f = "scripts_virt::install_kvm" ->
           << "sudo dnf install -y @virtualization",
              "sudo systemctl enable --now libvirtd" >>
      [] f = "scripts_virt::install_cockpit_minimal" ->
           << "sudo dnf install -y cockpit",
              "sudo systemctl enable --now cockpit.socket",
              "sudo firewall-cmd --add-service=cockpit --permanent",
              "sudo firewall-cmd --reload" >>
      [] f = "scripts_virt::install_cockpit_full" ->
           << "sudo dnf install -y cockpit cockpit-machines",
              "sudo systemctl enable --now cockpit.socket",
              "sudo firewall-cmd --add-service=cockpit --permanent",
              "sudo firewall-cmd --reload" >>
      [] f = "scripts_net::install_vpn_ovpn" ->
           << "sudo dnf install -y NetworkManager-openvpn NetworkManager-openvpn-gnome" >>
      [] f = "scripts_net::install_vpn_l2tp" ->
           << "sudo dnf install -y NetworkManager-l2tp NetworkManager-l2tp-gnome" >>
      [] f = "scripts_net::install_vpn_sswan" ->
           << "sudo dnf install -y strongswan strongswan-charon-nm" >>
      [] f = "scripts_net::install_vpn_lswan" ->
           << "sudo dnf install -y NetworkManager-libreswan NetworkManager-libreswan-gnome" >>
      [] f = "scripts_net::install_vpn_pptp" ->
           << "sudo dnf install -y NetworkManager-pptp NetworkManager-pptp-gnome" >>
      [] f = "scripts_net::install_vpn_oconn" ->
           << "sudo dnf install -y NetworkManager-openconnect NetworkManager-openconnect-gnome" >>

(***************************************************************************)
(* scripts.rs: the item! and menu! macros and build_menu_tree.             *)
(***************************************************************************)
item(name, func) ==
    [kind |-> "Item", name |-> name, script_fn |-> func, selected |-> FALSE]

menu(name, children) ==
    [kind |-> "Menu", name |-> name, children |-> children]

build_menu_tree(os) ==
    << menu("Main Menu", <<2, 18, 26, 31, 40>>),                       \*  1
       menu("Graphical Environments", <<3, 13>>),                      \*  2
       menu("Gnome DE", <<4, 7>>),                                     \*  3
       menu("Environment Installation", <<5, 6>>),                     \*  4
       item("Minimal Installation", "scripts_gnome::minimal_install"), \*  5
       item("Full Installation", "scripts_gnome::full_install"),       \*  6
       menu("Customization", <<8>>),                                   \*  7
       menu("Extensions", <<9, 10, 11, 12>>),                          \*  8
       menu("Tiling WM", <<>>),                                        \*  9
       menu("Top Bar", <<>>),                                          \* 10
       menu("Desktop Functions", <<>>),                                \* 11
       menu("Search", <<>>),                                           \* 12
       menu("Sway WM", <<14, 16>>),                                    \* 13
       menu("Environment Installation", <<15>>),                       \* 14
       item("Compile from Source", "scripts_sway::compile_from_source"), \* 15
       menu("Customization", <<17>>),                                  \* 16
       item("Wofi", "scripts_sway::install_wofi"),                     \* 17
       menu("Repositories", <<19>>),                                   \* 18
       menu("Add Repositories", <<20, 21, 22, 23, 24, 25>>),           \* 19
       item("CEPH", "scripts_repos::add_ceph"),                        \* 20
       item(IF os = "Rhel" THEN "CodeReady Builder" ELSE "CRB",
            "scripts_repos::add_crb"),                                 \* 21
       item("EPEL", "scripts_repos::add_epel"),                        \* 22
       item("Flathub", "scripts_repos::add_flathub"),                  \* 23
       item("Real-Time (RT)", "scripts_repos::add_rt"),                \* 24
       item("High Availability (HA)", "scripts_repos::add_ha"),        \* 25
       menu("Virtualization", <<27, 28>>),                             \* 26
       item("KVM (Core & Tools)", "scripts_virt::install_kvm"),        \* 27
       menu("Cockpit", <<29, 30>>),                                    \* 28
       item("Minimal Install", "scripts_virt::install_cockpit_minimal"), \* 29
       item("Full Install (with Machines)",
            "scripts_virt::install_cockpit_full"),                     \* 30
       menu("Networking", <<32, 39>>),                                 \* 31
       menu("NetworkManager", <<33, 34, 35, 36, 37, 38>>),             \* 32
       item("OpenVPN", "scripts_net::install_vpn_ovpn"),               \* 33
       item("OpenConnect", "scripts_net::install_vpn_oconn"),          \* 34
       item("L2TP", "scripts_net::install_vpn_l2tp"),                  \* 35
       item("LibreSwan", "scripts_net::install_vpn_lswan"),            \* 36
       item("StrongSwan", "scripts_net::install_vpn_sswan"),           \* 37
       item("PPTP", "scripts_net::install_vpn_pptp"),                  \* 38
       menu("KVM (libvirt networks)", <<>>),                           \* 39
       menu("Hardening", <<>>) >>                                      \* 40

\* The root of every arena.
Root == 1

IsMenu(tree, n) == tree[n].kind = "Menu"
IsItem(tree, n) == tree[n].kind = "Item"
ChildrenOf(tree, n) == IF IsMenu(tree, n) THEN tree[n].children ELSE <<>>
Leaves(tree) == {n \in 1..Len(tree) : IsItem(tree, n)}
SelectedLeaves(tree) == {n \in Leaves(tree) : tree[n].selected}


(***************************************************************************)
(* main.rs: MenuNode::get_selected_scripts and get_selected_item_names.    *)
(* Each operator is the sequence of values the call pushes onto its &mut   *)
(* Vec argument, in the order of the pushes; a caller's Vec after the call *)
(* is its Vec before the call followed by that sequence.                   *)
(***************************************************************************)
RECURSIVE get_selected_scripts(_, _)
RECURSIVE get_selected_scripts_children(_, _, _)

\* Mutant: the children are visited last to first.
get_selected_scripts_children_Reversed(tree, children, i) ==
    IF i > Len(children) THEN <<>>
    ELSE get_selected_scripts(tree, children[Len(children) + 1 - i])
            \o get_selected_scripts_children(tree, children, i + 1)

\* for child in children { child.borrow().get_selected_scripts(scripts) }
get_selected_scripts_children(tree, children, i) ==
    IF i > Len(children) THEN <<>>
    ELSE get_selected_scripts(tree, children[i])
            \o get_selected_scripts_children(tree, children, i + 1)

get_selected_scripts(tree, n) ==
    IF tree[n].kind = "Item"
    THEN IF tree[n].selected THEN << tree[n].script_fn >> ELSE <<>>
    ELSE get_selected_scripts_children(tree, tree[n].children, 1)

RECURSIVE get_selected_item_names(_, _)
RECURSIVE get_selected_item_names_children(_, _, _)

\* Mutant: the names are collected from the last child to the first.
get_selected_item_names_children_Reversed(tree, children, i) ==
    IF i > Len(children) THEN <<>>
    ELSE get_selected_item_names(tree, children[Len(children) + 1 - i])
            \o get_selected_item_names_children(tree, children, i + 1)

get_selected_item_names_children(tree, children, i) ==
    IF i > Len(children) THEN <<>>
    ELSE get_selected_item_names(tree, children[i])
            \o get_selected_item_names_children(tree, children, i + 1)

get_selected_item_names(tree, n) ==
    IF tree[n].kind = "Item"
    THEN IF tree[n].selected THEN << tree[n].name >> ELSE <<>>
    ELSE get_selected_item_names_children(tree, tree[n].children, 1)

\* App::get_selected_items
get_selected_items(tree) == get_selected_item_names(tree, Root)

(***************************************************************************)
(* main.rs: App::generate_commands.                                        *)
(***************************************************************************)
\* format!("# Commands generated for {:?} by RHEL/CentOS TUI Manager\n", os)
HeaderOsLine(os) ==
    CASE os = "Rhel" ->
           "# Commands generated for Rhel by RHEL/CentOS TUI Manager"
      [] os = "Centos" ->
           "# Commands generated for Centos by RHEL/CentOS TUI Manager"
      [] os = "Unknown" ->
           "# Commands generated for Unknown by RHEL/CentOS TUI Manager"

Header(os) ==
    << "#!/bin/bash",
       HeaderOsLine(os),
       "# Save this script and run it with sudo: sudo bash ./script.sh",
       "" >>

NoOptionsMarker == "# No options selected."
RebootEcho == "echo 'Installation complete. Rebooting now...'"
RebootCmd == "sudo reboot"

\* for script_fn in scripts { push_str(script_fn()); push('\n') }
RECURSIVE push_scripts(_, _, _)
push_scripts(command_text, scripts, i) ==
    IF i > Len(scripts) THEN command_text
    ELSE push_scripts(command_text \o call_script_fn(scripts[i]), scripts, i + 1)

\* Mutant: only the leaves under the menu being browsed are emitted.
generate_commands_OfView(tree, os, reboot) ==
    LET scripts == get_selected_scripts(tree, nav_path[Len(nav_path)])
        body == IF scripts = <<>>
                THEN Header(os) \o << "", NoOptionsMarker >>
                ELSE push_scripts(Header(os), scripts, 1)
    IN  IF reboot THEN body \o << "", RebootEcho, RebootCmd >> ELSE body

\* Mutant: the reboot lines are written right after the header.
generate_commands_RebootFirst(tree, os, reboot) ==
    LET scripts == get_selected_scripts(tree, Root)
        head == IF reboot THEN Header(os) \o << "", RebootEcho, RebootCmd >>
                          ELSE Header(os)
    IN  IF scripts = <<>>
        THEN head \o << "", NoOptionsMarker >>
        ELSE push_scripts(head, scripts, 1)

\* Mutant: an empty selection leaves the body empty.
generate_commands_NoMarker(tree, os, reboot) ==
    LET scripts == get_selected_scripts(tree, Root)
        body == push_scripts(Header(os), scripts, 1)
    IN  IF reboot THEN body \o << "", RebootEcho, RebootCmd >> ELSE body

\* Mutant: the root view lists the children of the root only.
visible_nodes_NoInline(tree, path) ==
    LET current == path[Len(path)]
    IN  IF tree[current].kind = "Menu" THEN tree[current].children ELSE <<>>

generate_commands(tree, os, reboot) ==
    LET scripts == get_selected_scripts(tree, Root)
        body == IF scripts = <<>>
                THEN Header(os) \o << "", NoOptionsMarker >>
                ELSE push_scripts(Header(os), scripts, 1)
    IN  IF reboot THEN body \o << "", RebootEcho, RebootCmd >> ELSE body

(***************************************************************************)
(* main.rs: App::get_current_menu_view and App::visible_nodes.             *)
(***************************************************************************)
get_current_menu_view(path) == path[Len(path)]

\* v.push(child); if child is a Menu, push its immediate children
RECURSIVE visible_root(_, _, _, _)
visible_root(tree, children, i, v) ==
    IF i > Len(children) THEN v
    ELSE LET child == children[i]
             v1 == Append(v, child)
             v2 == IF tree[child].kind = "Menu"
                   THEN v1 \o tree[child].children
                   ELSE v1
         IN  visible_root(tree, children, i + 1, v2)

visible_nodes(tree, path) ==
    LET current == get_current_menu_view(path)
    IN  IF Len(path) = 1
        THEN IF tree[current].kind = "Menu"
             THEN visible_root(tree, tree[current].children, 1, <<>>)
             ELSE <<>>
        ELSE IF tree[current].kind = "Menu"
             THEN tree[current].children
             ELSE <<>>

\* if !visible.is_empty() { idx.min(len - 1) } else { 0 }
clamp_index(idx, len) == IF len # 0 THEN Min(idx, len - 1) ELSE 0


(***************************************************************************)
(* main.rs: draw_main_ui, the rows of the menu panel (menu_strings).       *)
(* A row is the formatted string, kept as its parts:                       *)
(*   "{name} >"        [indent |-> FALSE, mark |-> ">",   name |-> name]   *)
(*   "  [x] {name}"    [indent |-> TRUE,  mark |-> "[x]", name |-> name]   *)
(***************************************************************************)
row_of(tree, n, indent) ==
    IF tree[n].kind = "Menu"
    THEN [indent |-> indent, mark |-> ">", name |-> tree[n].name]
    ELSE [indent |-> indent,
          mark |-> IF tree[n].selected THEN "[x]" ELSE "[ ]",
          name |-> tree[n].name]

\* The inner while loop (main.rs 397-427): rows of the entries that follow
\* the header of top and are children of top.  Yields the index reached
\* and the rows.
RECURSIVE menu_strings_inner(_, _, _, _, _)
menu_strings_inner(tree, visible, top, i, out) ==
    IF i > Len(visible) THEN [i |-> i, out |-> out]
    ELSE LET maybe == visible[i]
             is_child_of_top ==
                 /\ tree[top].kind = "Menu"
                 /\ \E k \in 1..Len(tree[top].children) :
                        tree[top].children[k] = maybe
         IN  IF ~is_child_of_top THEN [i |-> i, out |-> out]
             ELSE menu_strings_inner(tree, visible, top, i + 1,
                                     Append(out, row_of(tree, maybe, TRUE)))

\* Mutant: at the root every row is rendered without indentation.
menu_strings_root_Flat(tree, visible, i, out) ==
    out \o [k \in 1..Len(visible) |-> row_of(tree, visible[k], FALSE)]

\* The outer while loop (main.rs 387-435).
RECURSIVE menu_strings_root(_, _, _, _)
menu_strings_root(tree, visible, i, out) ==
    IF i > Len(visible) THEN out
    ELSE LET top == visible[i]
         IN  IF tree[top].kind = "Menu"
             THEN LET r == menu_strings_inner(tree, visible, top, i + 1,
                               Append(out, row_of(tree, top, FALSE)))
                  IN  menu_strings_root(tree, visible, r.i, r.out)
             ELSE menu_strings_root(tree, visible, i + 1,
                                    Append(out, row_of(tree, top, FALSE)))

menu_strings(tree, path) ==
    LET visible == visible_nodes(tree, path)
    IN  IF Len(path) = 1
        THEN menu_strings_root(tree, visible, 1, <<>>)
        ELSE [k \in 1..Len(visible) |-> row_of(tree, visible[k], FALSE)]

\* Mutant: the preview follows the reboot flag of the session.
script_preview_OfFlag ==
    generate_commands(menu_tree, os_distro, reboot_requested)

\* draw_main_ui: let script_content = app.generate_commands(false);
script_preview == generate_commands(menu_tree, os_distro, FALSE)

(***************************************************************************)
(* The tree program: App::new and the loop of run_app.                     *)
(*   pc = "draw"   : about to run terminal.draw(|f| ui(f, &mut app))       *)
(*   pc = "read"   : blocked in event::read()                              *)
(*   pc = "exited" : run_app has returned, outcome holds its result        *)
(***************************************************************************)
\* Keys typed into the filename buffer while Saving.
NameChars == {"q", "a"}

Quit == [tag |-> "Quit"]
RunScript(script) == [tag |-> "RunScript", script |-> script]
IoErr == [tag |-> "Err"]

\* App::new (main.rs 117-132); detect_os is the environment's choice.
AppNewWith(os, tree) ==
    /\ os_distro = os
    /\ menu_tree = tree
    /\ nav_path = <<Root>>
    /\ state = "Running"
    /\ selected_index = 0
    /\ reboot_requested = FALSE
    /\ filename_input = <<>>
    /\ save_status_message = None

AppNew(os) == AppNewWith(os, build_menu_tree(os))

NoIo == io' = None

\* Mutant: the status is cleared only while a filename is typed.
Draw_ClearsWhileTyping ==
    /\ pc = "draw"
    /\ IF state = "Running"
       THEN /\ selected_index' =
                 clamp_index(selected_index,
                             Len(menu_strings(menu_tree, nav_path)))
            /\ UNCHANGED save_status_message
       ELSE /\ save_status_message' =
                 IF save_status_message # None /\ filename_input # <<>>
                 THEN None ELSE save_status_message
            /\ UNCHANGED selected_index
    /\ pc' = "read"
    /\ NoIo
    /\ UNCHANGED <<state, menu_tree, nav_path, os_distro, reboot_requested,
                   filename_input, outcome>>

\* Mutant: the review screen shows the status and keeps it.
Draw_KeepsStatus ==
    /\ pc = "draw"
    /\ IF state = "Running"
       THEN selected_index' =
                clamp_index(selected_index,
                            Len(menu_strings(menu_tree, nav_path)))
       ELSE UNCHANGED selected_index
    /\ pc' = "read"
    /\ NoIo
    /\ UNCHANGED <<state, menu_tree, nav_path, os_distro, reboot_requested,
                   filename_input, save_status_message, outcome>>

\* ui -> draw_main_ui (Running): the clamp after the rows were built
\* (main.rs 452-457).
\* ui -> draw_finished_screen (Finished, Saving): a shown status message is
\* cleared when the filename buffer is empty (main.rs 504-512).
Draw ==
    /\ pc = "draw"
    /\ IF state = "Running"
       THEN /\ selected_index' =
                 clamp_index(selected_index,
                             Len(menu_strings(menu_tree, nav_path)))
            /\ UNCHANGED save_status_message
       ELSE /\ save_status_message' =
                 IF save_status_message # None /\ filename_input = <<>>
                 THEN None ELSE save_status_message
            /\ UNCHANGED selected_index
    /\ pc' = "read"
    /\ NoIo
    /\ UNCHANGED <<state, menu_tree, nav_path, os_distro, reboot_requested,
                   filename_input, outcome>>

\* event::read() yields an event that is not a key: back to the draw.
NonKeyEvent ==
    /\ pc = "read"
    /\ pc' = "draw"
    /\ NoIo
    /\ UNCHANGED <<app_vars, outcome>>

\* event::read()? fails: run_app returns the error.
ReadError ==
    /\ pc = "read"
    /\ pc' = "exited"
    /\ outcome' = Some(IoErr)
    /\ NoIo
    /\ UNCHANGED app_vars

\* return Ok(action)
Return(action) ==
    /\ pc' = "exited"
    /\ outcome' = Some(action)

\* the end of the match: next iteration of the loop
Continue ==
    /\ pc' = "draw"
    /\ UNCHANGED outcome

\* ---- AppState::Running (main.rs 254-303) ----
\* Every key first clamps selected_index to the visible view (256-262).
Visible == visible_nodes(menu_tree, nav_path)
Clamped == clamp_index(selected_index, Len(Visible))

InRunning == pc = "read" /\ state = "Running"

RunningQuit ==
    /\ InRunning
    /\ selected_index' = Clamped
    /\ Return(Quit)
    /\ NoIo
    /\ UNCHANGED <<state, menu_tree, nav_path, os_distro, reboot_requested,
                   filename_input, save_status_message>>

\* 'i' (reboot = FALSE) and 'r' (reboot = TRUE)
\* Mutant: a reboot once requested is never withdrawn.
RunningInstall_Sticky(reboot) ==
    /\ InRunning
    /\ selected_index' = Clamped
    /\ state' = "Finished"
    /\ reboot_requested' = (reboot_requested \/ reboot)
    /\ Continue
    /\ NoIo
    /\ UNCHANGED <<menu_tree, nav_path, os_distro, filename_input,
                   save_status_message>>

RunningInstall(reboot) ==
    /\ InRunning
    /\ selected_index' = Clamped
    /\ state' = "Finished"
    /\ reboot_requested' = reboot
    /\ Continue
    /\ NoIo
    /\ UNCHANGED <<menu_tree, nav_path, os_distro, filename_input,
                   save_status_message>>

\* Mutant: Down saturates at the last row instead of wrapping.
RunningDown_Saturating ==
    /\ InRunning
    /\ selected_index' = IF Len(Visible) # 0
                         THEN Min(Clamped + 1, Len(Visible) - 1)
                         ELSE Clamped
    /\ Continue
    /\ NoIo
    /\ UNCHANGED <<state, menu_tree, nav_path, os_distro, reboot_requested,
                   filename_input, save_status_message>>

RunningDown ==
    /\ InRunning
    /\ selected_index' = IF Len(Visible) # 0
                         THEN (Clamped + 1) % Len(Visible)
                         ELSE Clamped
    /\ Continue
    /\ NoIo
    /\ UNCHANGED <<state, menu_tree, nav_path, os_distro, reboot_requested,
                   filename_input, save_status_message>>

RunningUp ==
    /\ InRunning
    /\ selected_index' = IF Len(Visible) # 0
                         THEN (Clamped + Len(Visible) - 1) % Len(Visible)
                         ELSE Clamped
    /\ Continue
    /\ NoIo
    /\ UNCHANGED <<state, menu_tree, nav_path, os_distro, reboot_requested,
                   filename_input, save_status_message>>

\* Mutant: activate selects the item instead of flipping it.
toggle_SetsOn(tree, n) == [tree EXCEPT ![n].selected = TRUE]

\* Mutant: activate also flips the next node when that is an item.
toggle_AndNext(tree, n) ==
    [m \in 1..Len(tree) |->
        IF m = n \/ (m = n + 1 /\ tree[m].kind = "Item")
        THEN [tree[m] EXCEPT !.selected = ~@]
        ELSE tree[m]]

\* *selected = !*selected
toggle(tree, n) == [tree EXCEPT ![n].selected = ~tree[n].selected]

\* Right | Enter: visible.get(selected_index) is None on an empty view.
\* Mutant: a menu without children cannot be entered.
RunningActivate_SkipsEmpty(cap) ==
    /\ InRunning
    /\ IF Clamped < Len(Visible)
       THEN LET selected_rc == Visible[Clamped + 1]
            IN  IF menu_tree[selected_rc].kind = "Menu"
                THEN IF menu_tree[selected_rc].children = <<>>
                     THEN /\ selected_index' = Clamped
                          /\ UNCHANGED <<menu_tree, nav_path>>
                     ELSE /\ nav_path' = Append(nav_path, selected_rc)
                          /\ selected_index' = 0
                          /\ UNCHANGED menu_tree
                ELSE /\ \/ menu_tree[selected_rc].selected
                        \/ Cardinality(SelectedLeaves(menu_tree)) < cap
                     /\ menu_tree' = toggle(menu_tree, selected_rc)
                     /\ selected_index' = Clamped
                     /\ UNCHANGED nav_path
       ELSE /\ selected_index' = Clamped
            /\ UNCHANGED <<menu_tree, nav_path>>
    /\ Continue
    /\ NoIo
    /\ UNCHANGED <<state, os_distro, reboot_requested, filename_input,
                   save_status_message>>

RunningActivate(cap) ==
    /\ InRunning
    /\ IF Clamped < Len(Visible)
       THEN LET selected_rc == Visible[Clamped + 1]
            IN  IF menu_tree[selected_rc].kind = "Menu"
                THEN /\ nav_path' = Append(nav_path, selected_rc)
                     /\ selected_index' = 0
                     /\ UNCHANGED menu_tree
                ELSE /\ \/ menu_tree[selected_rc].selected
                        \/ Cardinality(SelectedLeaves(menu_tree)) < cap
                     /\ menu_tree' = toggle(menu_tree, selected_rc)
                     /\ selected_index' = Clamped
                     /\ UNCHANGED nav_path
       ELSE /\ selected_index' = Clamped
            /\ UNCHANGED <<menu_tree, nav_path>>
    /\ Continue
    /\ NoIo
    /\ UNCHANGED <<state, os_distro, reboot_requested, filename_input,
                   save_status_message>>

\* Mutant: Back pops the path and keeps the cursor where it was.
RunningBack_KeepsIndex ==
    /\ InRunning
    /\ IF Len(nav_path) > 1
       THEN /\ nav_path' = Pop(nav_path)
            /\ selected_index' = Clamped
       ELSE /\ selected_index' = Clamped
            /\ UNCHANGED nav_path
    /\ Continue
    /\ NoIo
    /\ UNCHANGED <<state, menu_tree, os_distro, reboot_requested,
                   filename_input, save_status_message>>

\* Mutant: Back returns to the root from any depth.
RunningBack_ToRoot ==
    /\ InRunning
    /\ IF Len(nav_path) > 1
       THEN /\ nav_path' = <<Root>>
            /\ selected_index' = 0
       ELSE /\ selected_index' = Clamped
            /\ UNCHANGED nav_path
    /\ Continue
    /\ NoIo
    /\ UNCHANGED <<state, menu_tree, os_distro, reboot_requested,
                   filename_input, save_status_message>>

\* Mutant: Back pops whatever the length of the path.
RunningBack_PopsRoot ==
    /\ InRunning
    /\ nav_path' = Pop(nav_path)
    /\ selected_index' = 0
    /\ Continue
    /\ NoIo
    /\ UNCHANGED <<state, menu_tree, os_distro, reboot_requested,
                   filename_input, save_status_message>>

\* Left | Backspace
RunningBack ==
    /\ InRunning
    /\ IF Len(nav_path) > 1
       THEN /\ nav_path' = Pop(nav_path)
            /\ selected_index' = 0
       ELSE /\ selected_index' = Clamped
            /\ UNCHANGED nav_path
    /\ Continue
    /\ NoIo
    /\ UNCHANGED <<state, menu_tree, os_distro, reboot_requested,
                   filename_input, save_status_message>>

\* _ => {}
\* Mutant: a key without a binding moves the cursor to the first row.
RunningOther_MovesHome ==
    /\ InRunning
    /\ selected_index' = 0
    /\ Continue
    /\ NoIo
    /\ UNCHANGED <<state, menu_tree, nav_path, os_distro, reboot_requested,
                   filename_input, save_status_message>>

RunningOther ==
    /\ InRunning
    /\ selected_index' = Clamped
    /\ Continue
    /\ NoIo
    /\ UNCHANGED <<state, menu_tree, nav_path, os_distro, reboot_requested,
                   filename_input, save_status_message>>

\* ---- AppState::Finished (main.rs 304-310) ----
InFinished == pc = "read" /\ state = "Finished"

\* Mutant: 'q' on the review screen is ignored.
FinishedQuit_Ignored ==
    /\ InFinished
    /\ Continue
    /\ NoIo
    /\ UNCHANGED app_vars

FinishedQuit ==
    /\ InFinished
    /\ Return(Quit)
    /\ NoIo
    /\ UNCHANGED app_vars

\* Mutant: entering the save popup withdraws the reboot request.
FinishedSave_ResetsFlag ==
    /\ InFinished
    /\ state' = "Saving"
    /\ reboot_requested' = FALSE
    /\ Continue
    /\ NoIo
    /\ UNCHANGED <<menu_tree, nav_path, selected_index, os_distro,
                   filename_input, save_status_message>>

\* 's'
FinishedSave ==
    /\ InFinished
    /\ state' = "Saving"
    /\ Continue
    /\ NoIo
    /\ UNCHANGED <<menu_tree, nav_path, selected_index, os_distro,
                   reboot_requested, filename_input, save_status_message>>

\* Mutant: the run command drops the reboot flag.
FinishedRun_IgnoresFlag ==
    /\ InFinished
    /\ Return(RunScript(generate_commands(menu_tree, os_distro, FALSE)))
    /\ NoIo
    /\ UNCHANGED app_vars

\* 'r'
FinishedRun ==
    /\ InFinished
    /\ Return(RunScript(generate_commands(menu_tree, os_distro,
                                          reboot_requested)))
    /\ NoIo
    /\ UNCHANGED app_vars

\* Mutant: going back shows the catalogue from its root again.
FinishedBack_ToRootView ==
    /\ InFinished
    /\ state' = "Running"
    /\ nav_path' = <<Root>>
    /\ selected_index' = 0
    /\ Continue
    /\ NoIo
    /\ UNCHANGED <<menu_tree, os_distro, reboot_requested, filename_input,
                   save_status_message>>

\* Esc | Backspace
FinishedBack ==
    /\ InFinished
    /\ state' = "Running"
    /\ Continue
    /\ NoIo
    /\ UNCHANGED <<menu_tree, nav_path, selected_index, os_distro,
                   reboot_requested, filename_input, save_status_message>>

FinishedOther ==
    /\ InFinished
    /\ Continue
    /\ NoIo
    /\ UNCHANGED app_vars

\* ---- AppState::Saving (main.rs 311-325) ----
InSaving == pc = "read" /\ state = "Saving"

\* KeyCode::Char(c) => filename_input.push(c)
SavingCharWithin(cap, c) ==
    /\ InSaving
    /\ Len(filename_input) < cap
    /\ filename_input' = Append(filename_input, c)
    /\ Continue
    /\ NoIo
    /\ UNCHANGED <<state, menu_tree, nav_path, selected_index, os_distro,
                   reboot_requested, save_status_message>>

SavingChar(c) == SavingCharWithin(MaxName, c)

\* Mutant: backspace empties the buffer.
SavingBackspace_Clears ==
    /\ InSaving
    /\ filename_input' = <<>>
    /\ Continue
    /\ NoIo
    /\ UNCHANGED <<state, menu_tree, nav_path, selected_index, os_distro,
                   reboot_requested, save_status_message>>

SavingBackspace ==
    /\ InSaving
    /\ filename_input' = Pop(filename_input)
    /\ Continue
    /\ NoIo
    /\ UNCHANGED <<state, menu_tree, nav_path, selected_index, os_distro,
                   reboot_requested, save_status_message>>

\* Mutant: cancel keeps what was typed.
SavingEsc_KeepsBuffer ==
    /\ InSaving
    /\ state' = "Finished"
    /\ save_status_message' = None
    /\ Continue
    /\ NoIo
    /\ UNCHANGED <<menu_tree, nav_path, selected_index, os_distro,
                   reboot_requested, filename_input>>

\* Mutant: cancel leaves the review screen too.
SavingEsc_ToBrowsing ==
    /\ InSaving
    /\ state' = "Running"
    /\ filename_input' = <<>>
    /\ save_status_message' = None
    /\ Continue
    /\ NoIo
    /\ UNCHANGED <<menu_tree, nav_path, selected_index, os_distro,
                   reboot_requested>>

SavingEsc ==
    /\ InSaving
    /\ state' = "Finished"
    /\ filename_input' = <<>>
    /\ save_status_message' = None
    /\ Continue
    /\ NoIo
    /\ UNCHANGED <<menu_tree, nav_path, selected_index, os_distro,
                   reboot_requested>>

\* fs::write(&filename_input, script): the file system decides, except that
\* the empty path can never be created.
WriteResults(path) == IF path = <<>> THEN {FALSE} ELSE BOOLEAN

SavedTo(path) == [text |-> "Saved to ", arg |-> path]
ErrorMsg == [text |-> "Error: ", arg |-> <<>>]

\* Mutant: a failed write is propagated and ends the session.
SavingEnter_FailureEnds ==
    /\ InSaving
    /\ LET script == generate_commands(menu_tree, os_distro, reboot_requested)
       IN  \E ok \in WriteResults(filename_input) :
              /\ io' = Some([op |-> "write", path |-> filename_input,
                             content |-> script, ok |-> ok])
              /\ IF ok
                 THEN /\ save_status_message' = Some(SavedTo(filename_input))
                      /\ state' = "Finished"
                      /\ filename_input' = <<>>
                      /\ Continue
                 ELSE /\ Return(IoErr)
                      /\ UNCHANGED <<state, filename_input,
                                     save_status_message>>
    /\ UNCHANGED <<menu_tree, nav_path, selected_index, os_distro,
                   reboot_requested>>

SavingEnter ==
    /\ InSaving
    /\ LET script == generate_commands(menu_tree, os_distro, reboot_requested)
       IN  \E ok \in WriteResults(filename_input) :
              /\ io' = Some([op |-> "write", path |-> filename_input,
                             content |-> script, ok |-> ok])
              /\ save_status_message' =
                     IF ok THEN Some(SavedTo(filename_input))
                           ELSE Some(ErrorMsg)
    /\ state' = "Finished"
    /\ filename_input' = <<>>
    /\ Continue
    /\ UNCHANGED <<menu_tree, nav_path, selected_index, os_distro,
                   reboot_requested>>

SavingOther ==
    /\ InSaving
    /\ Continue
    /\ NoIo
    /\ UNCHANGED app_vars

\* ---- the dispatch of run_app: match app.state { ... match key.code } ----
CharKeys == {"q", "i", "r", "s", "a"}

OnKey(k) ==
    CASE state = "Running" ->
            (CASE k = "q" -> RunningQuit
               [] k = "i" -> RunningInstall(FALSE)
               [] k = "r" -> RunningInstall(TRUE)
               [] k = "Down" -> RunningDown
               [] k = "Up" -> RunningUp
               [] k \in {"Right", "Enter"} -> RunningActivate(MaxSelected)
               [] k \in {"Left", "Backspace"} -> RunningBack
               [] OTHER -> RunningOther)
      [] state = "Finished" ->
            (CASE k = "q" -> FinishedQuit
               [] k = "s" -> FinishedSave
               [] k = "r" -> FinishedRun
               [] k \in {"Esc", "Backspace"} -> FinishedBack
               [] OTHER -> FinishedOther)
      [] state = "Saving" ->
            (CASE k \in CharKeys -> SavingChar(k)
               [] k = "Backspace" -> SavingBackspace
               [] k = "Esc" -> SavingEsc
               [] k = "Enter" -> SavingEnter
               [] OTHER -> SavingOther)


(***************************************************************************)
(* main.rs: main, after run_app has returned (main.rs 218-245).  Every     *)
(* call ending in `?` returns from main with the error.                    *)
(***************************************************************************)
TmpScriptPath == << "/tmp/tui_install_script.sh" >>

MainFrame == UNCHANGED <<app_vars, outcome>>

\* Mutant: the script is run after every session that returned Ok.
MainRestoreTerminal_RunsAlways ==
    /\ pc = "exited"
    /\ \E ok \in BOOLEAN :
          pc' = IF ~ok THEN "main_err"
                ELSE IF outcome[1].tag # "Err" THEN "write_tmp"
                ELSE "main_ok"
    /\ NoIo
    /\ MainFrame
    /\ UNCHANGED main_vars

\* disable_raw_mode()?; execute!(LeaveAlternateScreen, ...)?; show_cursor()?
\* then the branch on res: RunScript, Err (printed), anything else.
MainRestoreTerminal ==
    /\ pc = "exited"
    /\ \E ok \in BOOLEAN :
          pc' = IF ~ok THEN "main_err"
                ELSE IF outcome[1].tag = "RunScript" THEN "write_tmp"
                ELSE "main_ok"
    /\ NoIo
    /\ MainFrame
    /\ UNCHANGED main_vars

\* fs::write(script_path, &script_content)?
MainWriteTmp ==
    /\ pc = "write_tmp"
    /\ \E ok \in BOOLEAN :
          /\ io' = Some([op |-> "write", path |-> TmpScriptPath,
                         content |-> outcome[1].script, ok |-> ok])
          /\ tmp_script' = IF ok THEN Some(outcome[1].script) ELSE tmp_script
          /\ pc' = IF ok THEN "set_permissions" ELSE "main_err"
    /\ MainFrame
    /\ UNCHANGED executions

\* fs::set_permissions(script_path, 0o755)?
MainSetPermissions ==
    /\ pc = "set_permissions"
    /\ \E ok \in BOOLEAN :
          /\ io' = Some([op |-> "chmod", path |-> TmpScriptPath,
                         content |-> <<>>, ok |-> ok])
          /\ pc' = IF ok THEN "sudo" ELSE "main_err"
    /\ MainFrame
    /\ UNCHANGED main_vars

\* Command::new("sudo").arg("bash").arg(script_path).status()?: the launch
\* fails (an Err), or the script runs and exits with success or failure.
ExecResults == {"launch_failed", "success", "failure"}

MainRunScript ==
    /\ pc = "sudo"
    /\ \E result \in ExecResults :
          /\ io' = Some([op |-> "exec", path |-> TmpScriptPath,
                         content |-> tmp_script[1],
                         ok |-> (result # "launch_failed"),
                         status |-> result])
          /\ executions' = IF result = "launch_failed" THEN executions
                           ELSE executions + 1
          /\ pc' = IF result = "launch_failed" THEN "main_err"
                   ELSE "remove_file"
    /\ MainFrame
    /\ UNCHANGED tmp_script

\* fs::remove_file(script_path)?; Ok(())
MainRemoveFile ==
    /\ pc = "remove_file"
    /\ \E ok \in BOOLEAN :
          /\ io' = Some([op |-> "remove", path |-> TmpScriptPath,
                         content |-> <<>>, ok |-> ok])
          /\ tmp_script' = IF ok THEN None ELSE tmp_script
          /\ pc' = IF ok THEN "main_ok" ELSE "main_err"
    /\ MainFrame
    /\ UNCHANGED executions

(***************************************************************************)
(* The flat-list program (rdct.rs).                                        *)
(***************************************************************************)
MenuItem == {"Home", "Repos", "Virt", "Desktop"}
ActivePanel == {"Menu", "Content"}

\* App::new (rdct.rs 73-110): the three lists, nothing selected.
rd_repo_list(os) ==
    CASE os = "Rhel" ->
           << <<"EPEL (Extra Packages for Enterprise Linux)", FALSE>>,
              <<"CodeReady Linux Builder", FALSE>>,
              <<"Enable Real-Time (RT) repository", FALSE>>,
              <<"Enable High Availability (HA) repository", FALSE>> >>
      [] os = "Centos" ->
           << <<"EPEL (Extra Packages for Enterprise Linux)", FALSE>>,
              <<"CRB (CodeReady Builder)", FALSE>>,
              <<"Enable Real-Time (RT) repository", FALSE>>,
              <<"Enable High Availability (HA) repository", FALSE>> >>
      [] os = "Unknown" -> <<>>

rd_virt_list ==
    << <<"Install KVM & Tools (@virtualization)", FALSE>>,
       <<"Install & Enable Cockpit Web Console", FALSE>>,
       <<"Install virt-manager (GUI Client)", FALSE>>,
       <<"Install Guest Tools (libguestfs-tools)", FALSE>> >>

rd_desktop_list ==
    << <<"Minimal GNOME Install", FALSE>>,
       <<"Full GNOME Desktop Environment", FALSE>> >>

RdAppNew(os) ==
    /\ rd_os_distro = os
    /\ active_menu_item = "Home"
    /\ repo_list = rd_repo_list(os)
    /\ virt_list = rd_virt_list
    /\ desktop_list = rd_desktop_list
    /\ active_panel = "Menu"
    /\ menu_index = 0
    /\ rd_selected_index = 0

\* if cond { commands.push_str(...) }: the lines pushed, or none.
When(cond, lines) == IF cond THEN lines ELSE <<>>

RdHeaderOsLine(os) == HeaderOsLine(os)

\* the builder-repo line (rdct.rs 155-159)
rd_builder_line(os) ==
    CASE os = "Rhel" ->
           "sudo dnf config-manager --set-enabled codeready-builder-for-rhel-10-rhui-rpms"
      [] os = "Centos" -> "sudo dnf config-manager --set-enabled crb"
      [] os = "Unknown" -> "# SKIPPING BUILDER REPO: Unknown OS"

\* The number of header lines the test of rdct.rs 199 compares with.
RdHeaderLineLimit == 3

\* App::generate_commands (rdct.rs 142-209).  The items are indexed from 0
\* in the source and from 1 here; it[2] is the bool of the tuple.
rd_generate_commands(repo, virt, desktop, os, reboot) ==
    LET header == << "#!/bin/bash",
                     RdHeaderOsLine(os),
                     "# Run this script with sudo: sudo bash ./commands.sh",
                     "" >>
        repos == IF repo # <<>>
                 THEN When(repo[1][2], <<"sudo dnf install -y epel-release">>)
                   \o When(repo[2][2], <<rd_builder_line(os)>>)
                   \o When(repo[3][2],
                           <<"sudo dnf config-manager --set-enabled rt">>)
                   \o When(repo[4][2],
                           <<"sudo dnf config-manager --set-enabled ha">>)
                 ELSE <<>>
        virts == When(virt[1][2], <<"sudo dnf install -y @virtualization",
                                    "sudo systemctl enable --now libvirtd">>)
              \o When(virt[2][2],
                      <<"sudo dnf install -y cockpit",
                        "sudo systemctl enable --now cockpit.socket",
                        "sudo firewall-cmd --add-service=cockpit --permanent",
                        "sudo firewall-cmd --reload">>)
              \o When(virt[3][2], <<"sudo dnf install -y virt-manager">>)
              \o When(virt[4][2], <<"sudo dnf install -y libguestfs-tools">>)
        desktops ==
                 When(desktop[1][2],
                      <<"sudo dnf groupinstall -y 'Server with GUI' --exclude=gnome-software,gnome-tour",
                        "sudo systemctl set-default graphical.target">>)
              \o When(desktop[2][2],
                      <<"sudo dnf groupinstall -y 'Workstation'",
                        "sudo systemctl set-default graphical.target">>)
        commands == header \o repos \o virts \o desktops
        \* if commands.lines().count() <= 3
        marked == IF Len(commands) <= RdHeaderLineLimit
                  THEN commands \o << "", NoOptionsMarker >>
                  ELSE commands
    IN  IF reboot THEN marked \o << "", RebootEcho, RebootCmd >> ELSE marked

\* App::get_selected_items (rdct.rs 133-139)
rd_names_of(list) ==
    LET sel == SelectSeq(list, LAMBDA it : it[2])
    IN  [k \in 1..Len(sel) |-> sel[k][1]]

rd_get_selected_items ==
    rd_names_of(repo_list) \o rd_names_of(virt_list) \o rd_names_of(desktop_list)

\* App::get_active_list_mut (rdct.rs 123-130)
rd_active_list ==
    CASE active_menu_item = "Repos" -> repo_list
      [] active_menu_item = "Virt" -> virt_list
      [] active_menu_item = "Desktop" -> desktop_list
      [] active_menu_item = "Home" -> repo_list

RdLoop == rd_pc = "loop"

\* 'q'
RdQuit ==
    /\ RdLoop
    /\ rd_pc' = "exited"
    /\ UNCHANGED <<active_menu_item, repo_list, virt_list, desktop_list,
                   active_panel, menu_index, rd_selected_index, rd_os_distro,
                   rd_output>>

\* 'i' (reboot = FALSE) and 'r' (reboot = TRUE): print the script, return.
RdInstall(reboot) ==
    /\ RdLoop
    /\ rd_output' = Some(rd_generate_commands(repo_list, virt_list,
                             desktop_list, rd_os_distro, reboot))
    /\ rd_pc' = "exited"
    /\ UNCHANGED <<active_menu_item, repo_list, virt_list, desktop_list,
                   active_panel, menu_index, rd_selected_index, rd_os_distro>>

InMenuPanel == RdLoop /\ active_panel = "Menu"
InContentPanel == RdLoop /\ active_panel = "Content"

\* The number of menu entries (rdct.rs 273: "3 menu items").
RdMenuLen == 3

RdMenuDown ==
    /\ InMenuPanel
    /\ menu_index' = (menu_index + 1) % RdMenuLen
    /\ UNCHANGED <<active_menu_item, repo_list, virt_list, desktop_list,
                   active_panel, rd_selected_index, rd_os_distro, rd_pc,
                   rd_output>>

RdMenuUp ==
    /\ InMenuPanel
    /\ menu_index' = (menu_index + RdMenuLen - 1) % RdMenuLen
    /\ UNCHANGED <<active_menu_item, repo_list, virt_list, desktop_list,
                   active_panel, rd_selected_index, rd_os_distro, rd_pc,
                   rd_output>>

\* Enter | Right | Tab
RdMenuEnter ==
    /\ InMenuPanel
    /\ active_panel' = "Content"
    /\ active_menu_item' = CASE menu_index = 0 -> "Repos"
                             [] menu_index = 1 -> "Virt"
                             [] menu_index = 2 -> "Desktop"
    /\ rd_selected_index' = 0
    /\ UNCHANGED <<repo_list, virt_list, desktop_list, menu_index,
                   rd_os_distro, rd_pc, rd_output>>

RdMenuOther ==
    /\ InMenuPanel
    /\ UNCHANGED rd_vars

\* Left | Tab
RdContentLeft ==
    /\ InContentPanel
    /\ active_panel' = "Menu"
    /\ UNCHANGED <<active_menu_item, repo_list, virt_list, desktop_list,
                   menu_index, rd_selected_index, rd_os_distro, rd_pc,
                   rd_output>>

RdContentUp ==
    /\ InContentPanel
    /\ rd_selected_index' = IF rd_selected_index > 0
                            THEN rd_selected_index - 1
                            ELSE rd_selected_index
    /\ UNCHANGED <<active_menu_item, repo_list, virt_list, desktop_list,
                   active_panel, menu_index, rd_os_distro, rd_pc, rd_output>>

\* Mutant: Down on the last row of the content panel wraps to the first.
RdContentDown_Wraps ==
    /\ InContentPanel
    /\ LET list_len == CASE active_menu_item = "Repos" -> Len(repo_list)
                         [] active_menu_item = "Virt" -> Len(virt_list)
                         [] active_menu_item = "Desktop" -> Len(desktop_list)
                         [] OTHER -> 0
       IN  rd_selected_index' =
               IF list_len > 0
               THEN (rd_selected_index + 1) % list_len
               ELSE rd_selected_index
    /\ UNCHANGED <<active_menu_item, repo_list, virt_list, desktop_list,
                   active_panel, menu_index, rd_os_distro, rd_pc, rd_output>>

RdContentDown ==
    /\ InContentPanel
    /\ LET list_len == CASE active_menu_item = "Repos" -> Len(repo_list)
                         [] active_menu_item = "Virt" -> Len(virt_list)
                         [] active_menu_item = "Desktop" -> Len(desktop_list)
                         [] OTHER -> 0
       IN  rd_selected_index' =
               IF list_len > 0 /\ rd_selected_index < list_len - 1
               THEN rd_selected_index + 1
               ELSE rd_selected_index
    /\ UNCHANGED <<active_menu_item, repo_list, virt_list, desktop_list,
                   active_panel, menu_index, rd_os_distro, rd_pc, rd_output>>

\* if let Some(item) = list.get_mut(selected_index) { item.1 = !item.1 }
rd_toggle(list, idx) ==
    IF idx < Len(list)
    THEN [list EXCEPT ![idx + 1] = <<list[idx + 1][1], ~list[idx + 1][2]>>]
    ELSE list

RdSelectedCount ==
    Len(rd_get_selected_items)

\* Enter | ' ': App::toggle_selection (rdct.rs 113-120)
RdContentToggle ==
    /\ InContentPanel
    /\ IF rd_selected_index < Len(rd_active_list)
       THEN IF rd_active_list[rd_selected_index + 1][2]
            THEN TRUE
            ELSE RdSelectedCount < MaxSelected
       ELSE TRUE
    /\ CASE active_menu_item \in {"Repos", "Home"} ->
              /\ repo_list' = rd_toggle(repo_list, rd_selected_index)
              /\ UNCHANGED <<virt_list, desktop_list>>
         [] active_menu_item = "Virt" ->
              /\ virt_list' = rd_toggle(virt_list, rd_selected_index)
              /\ UNCHANGED <<repo_list, desktop_list>>
         [] active_menu_item = "Desktop" ->
              /\ desktop_list' = rd_toggle(desktop_list, rd_selected_index)
              /\ UNCHANGED <<repo_list, virt_list>>
    /\ UNCHANGED <<active_menu_item, active_panel, menu_index,
                   rd_selected_index, rd_os_distro, rd_pc, rd_output>>

RdContentOther ==
    /\ InContentPanel
    /\ UNCHANGED rd_vars

(***************************************************************************)
(* Specifications.                                                         *)
(***************************************************************************)
\* The program that is not running is parked.
\* main has not written the temporary script nor launched anything.
MainStart == tmp_script = None /\ executions = 0

MainIdle == UNCHANGED main_vars

TreeParked ==
    /\ AppNew("Unknown")
    /\ pc = "off" /\ outcome = None /\ io = None
    /\ MainStart

RdParked ==
    /\ RdAppNew("Unknown")
    /\ rd_pc = "off" /\ rd_output = None

\* ---- the tree program ----
Init ==
    /\ \E os \in OsDistribution : AppNew(os)
    /\ pc = "draw" /\ outcome = None /\ io = None
    /\ MainStart
    /\ RdParked

RdIdle == UNCHANGED rd_vars

Next ==
    \/ Draw /\ MainIdle /\ RdIdle
    \/ NonKeyEvent /\ MainIdle /\ RdIdle
    \/ ReadError /\ MainIdle /\ RdIdle
    \/ RunningQuit /\ MainIdle /\ RdIdle
    \/ RunningInstall(FALSE) /\ MainIdle /\ RdIdle
    \/ RunningInstall(TRUE) /\ MainIdle /\ RdIdle
    \/ RunningDown /\ MainIdle /\ RdIdle
    \/ RunningUp /\ MainIdle /\ RdIdle
    \/ RunningActivate(MaxSelected) /\ MainIdle /\ RdIdle
    \/ RunningBack /\ MainIdle /\ RdIdle
    \/ RunningOther /\ MainIdle /\ RdIdle
    \/ FinishedQuit /\ MainIdle /\ RdIdle
    \/ FinishedSave /\ MainIdle /\ RdIdle
    \/ FinishedRun /\ MainIdle /\ RdIdle
    \/ FinishedBack /\ MainIdle /\ RdIdle
    \/ FinishedOther /\ MainIdle /\ RdIdle
    \/ (\E c \in NameChars : SavingChar(c)) /\ MainIdle /\ RdIdle
    \/ SavingBackspace /\ MainIdle /\ RdIdle
    \/ SavingEsc /\ MainIdle /\ RdIdle
    \/ SavingEnter /\ MainIdle /\ RdIdle
    \/ SavingOther /\ MainIdle /\ RdIdle

Spec == Init /\ [][Next]_vars

\* ---- the tree program while the operator stays in the menu: no install,
\* no quit, and more leaves selected at a time ----
BrowseNext ==
    \/ Draw /\ MainIdle /\ RdIdle
    \/ NonKeyEvent /\ MainIdle /\ RdIdle
    \/ RunningDown /\ MainIdle /\ RdIdle
    \/ RunningUp /\ MainIdle /\ RdIdle
    \/ RunningActivate(MaxSelectedBrowsing) /\ MainIdle /\ RdIdle
    \/ RunningBack /\ MainIdle /\ RdIdle
    \/ RunningOther /\ MainIdle /\ RdIdle

SpecBrowse == Init /\ [][BrowseNext]_vars

\* ---- the tree program over arbitrary catalogues: every arena of at most
\* MaxNodes nodes whose root is a Menu and whose children are owned by one
\* Menu each, and the catalogue of scripts.rs; the operator stays in the
\* menu ----
TestNames == <<"Root", "A", "x", "y", "B", "C", "D", "E">>
TestScripts ==
    << "scripts_repos::add_ceph", "scripts_repos::add_crb",
       "scripts_repos::add_epel", "scripts_repos::add_flathub",
       "scripts_repos::add_rt", "scripts_repos::add_ha",
       "scripts_virt::install_kvm", "scripts_sway::install_wofi" >>

\* parent[k] of every node k but the root: an earlier node.
TreeShapes(n) ==
    {p \in [2..n -> 1..n] : \A k \in 2..n : p[k] < k}

\* the kinds: the root and every parent is a Menu.
TreeKinds(n, p) ==
    {k \in [1..n -> {"Menu", "Item"}] :
        /\ k[1] = "Menu"
        /\ \A j \in 2..n : k[p[j]] = "Menu"}

test_tree(n, p, k) ==
    [i \in 1..n |->
        IF k[i] = "Menu"
        THEN menu(TestNames[i],
                  SelectSeq([j \in 1..n |-> j],
                            LAMBDA j : j >= 2 /\ p[j] = i))
        ELSE item(TestNames[i], TestScripts[i])]

TestTrees ==
    UNION { UNION { {test_tree(n, p, k) : k \in TreeKinds(n, p)} :
                    p \in TreeShapes(n) } :
            n \in 1..MaxNodes }

\* Root{A: Group{x, y}, B: Item}
ExampleTree ==
    << menu("Root", <<2, 5>>),
       menu("A", <<3, 4>>),
       item("x", "scripts_repos::add_epel"),
       item("y", "scripts_repos::add_flathub"),
       item("B", "scripts_repos::add_rt") >>

TreesInit ==
    /\ \E tree \in TestTrees \cup {build_menu_tree("Unknown")} :
           AppNewWith("Unknown", tree)
    /\ pc = "draw" /\ outcome = None /\ io = None
    /\ MainStart
    /\ RdParked

SpecTrees == TreesInit /\ [][BrowseNext]_vars

\* ---- the whole of main for an operator who does not browse: the
\* session (install, review, save, run, quit) and what main does after it,
\* with longer filenames ----
MainNext ==
    \/ Draw /\ MainIdle /\ RdIdle
    \/ NonKeyEvent /\ MainIdle /\ RdIdle
    \/ ReadError /\ MainIdle /\ RdIdle
    \/ RunningQuit /\ MainIdle /\ RdIdle
    \/ RunningInstall(FALSE) /\ MainIdle /\ RdIdle
    \/ RunningInstall(TRUE) /\ MainIdle /\ RdIdle
    \/ RunningOther /\ MainIdle /\ RdIdle
    \/ FinishedQuit /\ MainIdle /\ RdIdle
    \/ FinishedSave /\ MainIdle /\ RdIdle
    \/ FinishedRun /\ MainIdle /\ RdIdle
    \/ FinishedBack /\ MainIdle /\ RdIdle
    \/ FinishedOther /\ MainIdle /\ RdIdle
    \/ (\E c \in NameChars : SavingCharWithin(MaxTyped, c))
           /\ MainIdle /\ RdIdle
    \/ SavingBackspace /\ MainIdle /\ RdIdle
    \/ SavingEsc /\ MainIdle /\ RdIdle
    \/ SavingEnter /\ MainIdle /\ RdIdle
    \/ SavingOther /\ MainIdle /\ RdIdle
    \/ MainRestoreTerminal /\ RdIdle
    \/ MainWriteTmp /\ RdIdle
    \/ MainSetPermissions /\ RdIdle
    \/ MainRunScript /\ RdIdle
    \/ MainRemoveFile /\ RdIdle

SpecMain == Init /\ [][MainNext]_vars

\* ---- the flat-list program ----
RdInit ==
    /\ \E os \in OsDistribution : RdAppNew(os)
    /\ rd_pc = "loop" /\ rd_output = None
    /\ TreeParked

TreeIdle == UNCHANGED tree_vars

RdNext ==
    \/ RdQuit /\ TreeIdle
    \/ RdInstall(FALSE) /\ TreeIdle
    \/ RdInstall(TRUE) /\ TreeIdle
    \/ RdMenuDown /\ TreeIdle
    \/ RdMenuUp /\ TreeIdle
    \/ RdMenuEnter /\ TreeIdle
    \/ RdMenuOther /\ TreeIdle
    \/ RdContentLeft /\ TreeIdle
    \/ RdContentUp /\ TreeIdle
    \/ RdContentDown /\ TreeIdle
    \/ RdContentToggle /\ TreeIdle
    \/ RdContentOther /\ TreeIdle

SpecRdct == RdInit /\ [][RdNext]_vars

(***************************************************************************)
(* Properties.                                                             *)
(***************************************************************************)
Browsing == state = "Running"
Reviewing == state = "Finished"
AtKey == pc = "read"
AtRender == pc = "draw"

\* The row activate acts on: the node at selected_index in the view.
RowAt(tree, path, idx) == visible_nodes(tree, path)[idx + 1]

\* C1: the navigation path is a root-to-node chain: it starts at the root
\* and every element is an immediate child of the element before it.
C1_NavPathIsChain ==
    /\ Len(nav_path) >= 1
    /\ nav_path[1] = Root
    /\ \A i \in 1..(Len(nav_path) - 1) :
           nav_path[i + 1] \in Range(ChildrenOf(menu_tree, nav_path[i]))

\* C2: Up and Down move selected_index inside [0, N) and wrap exactly at
\* the ends (N-1 -> 0 forward, 0 -> N-1 backward); on an empty view the
\* index is 0 and stays 0.
C2_MoveWraps ==
    [][ LET N == Len(visible_nodes(menu_tree, nav_path))
        IN  /\ RunningDown =>
                IF N > 0
                THEN /\ selected_index \in 0..(N - 1)
                     /\ selected_index' = IF selected_index = N - 1 THEN 0
                                          ELSE selected_index + 1
                     /\ selected_index' \in 0..(N - 1)
                ELSE selected_index = 0 /\ selected_index' = 0
            /\ RunningUp =>
                IF N > 0
                THEN /\ selected_index \in 0..(N - 1)
                     /\ selected_index' = IF selected_index = 0 THEN N - 1
                                          ELSE selected_index - 1
                     /\ selected_index' \in 0..(N - 1)
                ELSE selected_index = 0 /\ selected_index' = 0
      ]_vars

\* C2 witness: at the root the cursor stands on the last row of a view
\* of several rows after a move, the render due; Up reaches it from row 0.
C2_Witness ==
    /\ Browsing /\ AtRender
    /\ nav_path = <<Root>>
    /\ Len(visible_nodes(menu_tree, nav_path)) > 1
    /\ selected_index = Len(visible_nodes(menu_tree, nav_path)) - 1

\* C3: whenever a key is handled or the list is rendered in Browsing,
\* selected_index addresses a row of the current view (or is 0 on an
\* empty view).
C3_IndexInView ==
    (Browsing /\ (AtKey \/ AtRender)) =>
        LET N == Len(visible_nodes(menu_tree, nav_path))
        IN  IF N > 0 THEN selected_index \in 0..(N - 1)
                     ELSE selected_index = 0

\* C3 witness: the operator walked to the last row of the four-row
\* Extensions menu, entered the empty group there, and the render of the
\* empty view is due.
C3_Witness ==
    /\ Browsing /\ AtRender
    /\ Len(nav_path) > 1
    /\ Len(visible_nodes(menu_tree, Pop(nav_path))) = 4
    /\ Len(visible_nodes(menu_tree, nav_path)) = 0
    /\ Last(nav_path) = Last(visible_nodes(menu_tree, Pop(nav_path)))
    /\ selected_index = 0

\* Two arenas hold the same catalogue: the same kinds, names and children
\* (the selected flags may differ).
SameShape(t, u) ==
    /\ Len(t) = Len(u)
    /\ \A n \in 1..Len(t) :
          /\ t[n].kind = u[n].kind
          /\ t[n].name = u[n].name
          /\ ChildrenOf(t, n) = ChildrenOf(u, n)

\* The number of rows of the root view that precede the i-th child of the
\* root: one per earlier child, plus the children of the earlier Groups.
RECURSIVE RootOffset(_, _, _)
RootOffset(tree, top, i) ==
    IF i = 1 THEN 0
    ELSE RootOffset(tree, top, i - 1) + 1 + Len(ChildrenOf(tree, top[i - 1]))

\* C4: the asymmetric view rule.  At the root the view lists every child
\* of the root, each Group followed by its own children and nothing
\* deeper; inside a submenu the view is exactly the children of the last
\* path element.  For Root{A: Group{x,y}, B: Item}: [A, x, y, B] and [x, y].
C4_ViewRule ==
    LET V == visible_nodes(menu_tree, nav_path)
    IN  /\ IF Len(nav_path) = 1
           THEN LET top == ChildrenOf(menu_tree, Root)
                IN  /\ Len(V) = RootOffset(menu_tree, top, Len(top) + 1)
                    /\ \A i \in 1..Len(top) :
                          LET o == RootOffset(menu_tree, top, i)
                              sub == ChildrenOf(menu_tree, top[i])
                          IN  /\ V[o + 1] = top[i]
                              /\ \A m \in 1..Len(sub) : V[o + 1 + m] = sub[m]
           ELSE V = ChildrenOf(menu_tree, Last(nav_path))
        /\ SameShape(menu_tree, ExampleTree) =>
              /\ nav_path = <<1>> => V = <<2, 3, 4, 5>>
              /\ nav_path = <<1, 2>> => V = <<3, 4>>

\* C4 witness: in Root{A: Group{x,y}, B: Item} the operator has entered A
\* from the root view and a key is awaited on the view [x, y].
C4_Witness ==
    /\ SameShape(menu_tree, ExampleTree)
    /\ nav_path = <<1, 2>>
    /\ Browsing /\ AtKey
    /\ visible_nodes(menu_tree, nav_path) = <<3, 4>>

\* C5: activate on a Group row appends exactly that group to nav_path and
\* resets the cursor; back removes exactly the last element and resets the
\* cursor, so a back right after the activate (the render in between
\* changes neither) restores nav_path; back at the root changes neither
\* nav_path nor selected_index.
C5_ActivateGroupBackInverse ==
    [][ LET V == visible_nodes(menu_tree, nav_path)
        IN  /\ ( /\ RunningActivate(MaxSelectedBrowsing)
                 /\ selected_index < Len(V)
                 /\ IsMenu(menu_tree, V[selected_index + 1]) ) =>
                    /\ nav_path' = Append(nav_path, V[selected_index + 1])
                    /\ selected_index' = 0
                    /\ SubSeq(nav_path', 1, Len(nav_path') - 1) = nav_path
            /\ RunningBack =>
                    IF Len(nav_path) > 1
                    THEN /\ nav_path' = SubSeq(nav_path, 1, Len(nav_path) - 1)
                         /\ selected_index' = 0
                    ELSE /\ nav_path' = nav_path
                         /\ selected_index' = selected_index
            /\ (Draw /\ Browsing) =>
                    /\ nav_path' = nav_path
                    /\ selected_index' = selected_index
      ]_vars

\* C5 witness: two groups deep, the cursor reset by the activate, the
\* render due; the path is the one a back has to restore.
C5_Witness ==
    /\ Browsing /\ AtRender
    /\ Len(nav_path) = 3
    /\ selected_index = 0
    /\ Last(nav_path) \in Range(ChildrenOf(menu_tree, nav_path[2]))

\* C6: activate on an Item row flips that item's flag and leaves nav_path
\* and selected_index alone; the next activate addresses the same row and
\* restores the whole prior state (the render in between changes nothing).
C6_ItemToggleInvolution ==
    [][ LET V == visible_nodes(menu_tree, nav_path)
        IN  /\ ( /\ RunningActivate(MaxSelectedBrowsing)
                 /\ selected_index < Len(V)
                 /\ IsItem(menu_tree, V[selected_index + 1]) ) =>
                    LET n == V[selected_index + 1]
                    IN  /\ menu_tree'[n].selected = ~menu_tree[n].selected
                        /\ nav_path' = nav_path
                        /\ selected_index' = selected_index
                        /\ RowAt(menu_tree', nav_path', selected_index') = n
                        /\ [menu_tree' EXCEPT ![n].selected = ~@] = menu_tree
            /\ (Draw /\ Browsing) =>
                    UNCHANGED <<menu_tree, nav_path, selected_index>>
      ]_vars

\* C6 witness: a leaf has been switched on while another one was on, the
\* cursor is still on its row.
C6_Witness ==
    /\ Browsing /\ AtRender
    /\ Cardinality(SelectedLeaves(menu_tree)) = 2
    /\ selected_index < Len(visible_nodes(menu_tree, nav_path))
    /\ RowAt(menu_tree, nav_path, selected_index) \in SelectedLeaves(menu_tree)

\* C7: a step changes at most one node of the tree; only an activate in
\* Browsing on an Item row changes any, and it flips the selected flag of
\* exactly the leaf at selected_index in the visible view.
C7_OnlyOneLeafChanges ==
    [][ LET changed == {n \in 1..Len(menu_tree) : menu_tree'[n] # menu_tree[n]}
        IN  /\ Len(menu_tree') = Len(menu_tree)
            /\ Cardinality(changed) <= 1
            /\ changed # {} =>
                  /\ AtKey /\ Browsing
                  /\ RunningActivate(MaxSelected)
                  /\ selected_index < Len(visible_nodes(menu_tree, nav_path))
                  /\ changed = {RowAt(menu_tree, nav_path, selected_index)}
                  /\ \A n \in changed :
                        /\ IsItem(menu_tree, n)
                        /\ menu_tree'[n] =
                             [menu_tree[n] EXCEPT !.selected = ~@]
      ]_vars

\* C7 witness: a leaf shown inline at the root, as a child of a top-level
\* group, is selected and the cursor is on its row of the root view.
C7_Witness ==
    /\ Browsing /\ AtRender
    /\ nav_path = <<Root>>
    /\ selected_index < Len(visible_nodes(menu_tree, nav_path))
    /\ LET n == RowAt(menu_tree, nav_path, selected_index)
       IN  /\ n \in SelectedLeaves(menu_tree)
           /\ n \notin Range(ChildrenOf(menu_tree, Root))

\* Depth-first pre-order of the subtree of a node: the node, then the
\* pre-orders of its children, first to last.
RECURSIVE PreOrder(_, _)
RECURSIVE PreOrderFrom(_, _, _)
PreOrderFrom(tree, children, i) ==
    IF i > Len(children) THEN <<>>
    ELSE PreOrder(tree, children[i]) \o PreOrderFrom(tree, children, i + 1)

PreOrder(tree, n) == <<n>> \o PreOrderFrom(tree, ChildrenOf(tree, n), 1)

\* The payload lines of the selected leaves along a sequence of nodes.
RECURSIVE PayloadAlong(_, _, _)
PayloadAlong(tree, order, i) ==
    IF i > Len(order) THEN <<>>
    ELSE (IF IsItem(tree, order[i]) /\ tree[order[i]].selected
          THEN call_script_fn(tree[order[i]].script_fn)
          ELSE <<>>) \o PayloadAlong(tree, order, i + 1)

\* The number of lines of the header: shebang, OS comment, usage, blank.
HeaderLines == 4

\* C8: with a leaf selected, the body of the script (what follows the
\* header) is the payload of every selected leaf, once each, each ended by
\* a newline, in depth-first pre-order of the catalogue; with reboot the
\* same body precedes the reboot lines.
C8_BodyInPreOrder ==
    SelectedLeaves(menu_tree) # {} =>
        LET expected == PayloadAlong(menu_tree, PreOrder(menu_tree, Root), 1)
            plain == generate_commands(menu_tree, os_distro, FALSE)
            boot == generate_commands(menu_tree, os_distro, TRUE)
        IN  /\ SubSeq(plain, HeaderLines + 1, Len(plain)) = expected
            /\ SubSeq(boot, HeaderLines + 1, HeaderLines + Len(expected))
                   = expected
            /\ Len(boot) = HeaderLines + Len(expected) + 3

\* C8 witness: two leaves are selected, the one under the cursor in the
\* root view (toggled inline) and one that the root view does not show
\* (toggled from a submenu) and that comes earlier in the catalogue.
C8_Witness ==
    /\ Browsing /\ AtRender
    /\ nav_path = <<Root>>
    /\ Cardinality(SelectedLeaves(menu_tree)) = 2
    /\ selected_index < Len(visible_nodes(menu_tree, nav_path))
    /\ LET n == RowAt(menu_tree, nav_path, selected_index)
       IN  /\ n \in SelectedLeaves(menu_tree)
           /\ \E m \in SelectedLeaves(menu_tree) :
                 /\ m < n
                 /\ m \notin Range(visible_nodes(menu_tree, nav_path))

\* Every line of every payload of the catalogue.
PayloadLines(tree) ==
    UNION {Range(call_script_fn(tree[n].script_fn)) : n \in Leaves(tree)}

\* C9: generate_commands emits the no-options marker and no payload line
\* when no leaf is selected, and payload lines without the marker when a
\* leaf is selected.
C9_MarkerIffNothingSelected ==
    \A reboot \in BOOLEAN :
        LET script == generate_commands(menu_tree, os_distro, reboot)
            payload == Range(script) \cap PayloadLines(menu_tree)
        IN  IF SelectedLeaves(menu_tree) = {}
            THEN "# No options selected." \in Range(script) /\ payload = {}
            ELSE "# No options selected." \notin Range(script)
                 /\ payload # {}

\* C9 witness: from inside a submenu the operator finished and ran the
\* script with nothing selected; run_app returned the script with the
\* marker.
C9_Witness ==
    /\ pc = "exited"
    /\ outcome # None
    /\ outcome[1].tag = "RunScript"
    /\ SelectedLeaves(menu_tree) = {}
    /\ "# No options selected." \in Range(outcome[1].script)
    /\ Len(nav_path) > 1

\* C10: in the flat-list program, the script generated with nothing
\* selected in any of the three lists contains the no-options comment.
C10_RdMarkerWhenNothingSelected ==
    (rd_pc = "exited" /\ rd_output # None /\ RdSelectedCount = 0) =>
        "# No options selected." \in Range(rd_output[1])

\* C11: generate_commands(reboot) ends with the completion echo line and
\* then 'sudo reboot' when reboot is true, every payload line and the
\* no-options marker come before these two lines, and neither line occurs
\* when reboot is false.
C11_RebootLinesLast ==
    LET boot == generate_commands(menu_tree, os_distro, TRUE)
        plain == generate_commands(menu_tree, os_distro, FALSE)
        N == Len(boot)
        before == PayloadLines(menu_tree) \cup {"# No options selected."}
    IN  /\ N >= 2
        /\ boot[N - 1] = "echo 'Installation complete. Rebooting now...'"
        /\ boot[N] = "sudo reboot"
        /\ \A i \in 1..N :
              boot[i] \in before => i < N - 1
        /\ "echo 'Installation complete. Rebooting now...'" \notin Range(plain)
        /\ "sudo reboot" \notin Range(plain)
        /\ plain # <<>>

\* C11 witness: run_app returned the script for install+reboot with a leaf
\* selected; it ends with the two reboot lines.
C11_Witness ==
    /\ pc = "exited"
    /\ outcome # None
    /\ outcome[1].tag = "RunScript"
    /\ reboot_requested
    /\ SelectedLeaves(menu_tree) # {}
    /\ Last(outcome[1].script) = "sudo reboot"

\* The catalogue of an OS with exactly the leaves of sel selected.
WithSelection(os, sel) ==
    LET fresh == build_menu_tree(os)
    IN  [n \in 1..Len(fresh) |->
            IF fresh[n].kind = "Item"
            THEN [fresh[n] EXCEPT !.selected = (n \in sel)]
            ELSE fresh[n]]

\* The script as a function of the selected set, the OS and the reboot
\* argument alone: header, payloads in catalogue order or the marker,
\* reboot lines.
ExpectedScript(sel, os, reboot) ==
    LET tree == WithSelection(os, sel)
        body == IF sel = {}
                THEN << "", "# No options selected." >>
                ELSE PayloadAlong(tree, PreOrder(tree, Root), 1)
        tail == IF reboot
                THEN << "", "echo 'Installation complete. Rebooting now...'",
                        "sudo reboot" >>
                ELSE <<>>
    IN  Header(os) \o body \o tail

\* C12: generate_commands is a function of the selection flags, the OS and
\* the reboot argument only: in every state, whatever nav_path,
\* selected_index and session state, its output (previewed, run or
\* written) is the one determined by the selected set; the steps that call
\* it leave the selection, path, OS and reboot flag as they were; and the
\* output after deselecting a leaf just selected is the prior output.
C12_PureFunctionOfSelection ==
    /\ [] LET expected == [r \in BOOLEAN |->
                              ExpectedScript(SelectedLeaves(menu_tree),
                                             os_distro, r)]
          IN  /\ \A r \in BOOLEAN :
                    generate_commands(menu_tree, os_distro, r) = expected[r]
              /\ (outcome # None /\ outcome[1].tag = "RunScript") =>
                    outcome[1].script = expected[reboot_requested]
              /\ io # None => io[1].content = expected[reboot_requested]
    /\ [][ /\ (Draw \/ FinishedRun \/ SavingEnter) =>
                UNCHANGED <<menu_tree, nav_path, os_distro, reboot_requested>>
           /\ ( /\ RunningActivate(MaxSelected)
                /\ selected_index < Len(visible_nodes(menu_tree, nav_path))
                /\ IsItem(menu_tree,
                          RowAt(menu_tree, nav_path, selected_index)) ) =>
                LET n == RowAt(menu_tree, nav_path, selected_index)
                IN  \A r \in BOOLEAN :
                       /\ generate_commands(menu_tree', os_distro', r)
                              # generate_commands(menu_tree, os_distro, r)
                       /\ generate_commands(
                              [menu_tree' EXCEPT ![n].selected = ~@],
                              os_distro', r)
                              = generate_commands(menu_tree, os_distro, r)
         ]_vars

\* C12 witness: the review screen has rendered the script while the
\* operator is inside a submenu that does not hold the selected leaf.
C12_Witness ==
    /\ Reviewing /\ AtKey
    /\ Len(nav_path) > 1
    /\ \E n \in SelectedLeaves(menu_tree) :
          n \notin Range(PreOrder(menu_tree, Last(nav_path)))

\* C13 (as stated): the key 'q' ends the session with outcome Quit from
\* every session state, Browsing, Reviewing and Saving.
C13_QuitFromEveryState ==
    [][ (AtKey /\ OnKey("q")) =>
            (pc' = "exited" /\ outcome' = Some(Quit)) ]_vars

\* C13 (amended): the key 'q' ends the session with outcome Quit from
\* Browsing and from Reviewing; in Saving it is appended to the filename
\* buffer and the session goes on in Saving.
C13_QuitOutsideSaving ==
    [][ (AtKey /\ OnKey("q")) =>
            IF state \in {"Running", "Finished"}
            THEN /\ pc' = "exited"
                 /\ outcome' = Some(Quit)
            ELSE /\ state' = "Saving"
                 /\ filename_input' = Append(filename_input, "q")
                 /\ pc' = "draw"
                 /\ outcome' = None ]_vars

\* C13 witness: the session has ended with Quit from the review screen.
C13_Witness ==
    /\ pc = "exited"
    /\ outcome = Some(Quit)
    /\ state = "Finished"

\* C14: the outcome becomes RunScript only by the run command ('r') in
\* Reviewing, which ends the session; the script carried is the one
\* determined by the selection at that moment and the reboot flag, and the
\* flag is the one set by the install command that entered Reviewing (no
\* step in Reviewing or Saving changes it).
C14_RunScriptOnlyOnRun ==
    [][ /\ (outcome' # outcome /\ outcome' # None
               /\ outcome'[1].tag = "RunScript") =>
              /\ AtKey /\ Reviewing
              /\ OnKey("r")
              /\ pc' = "exited"
              /\ outcome'[1].script
                    = ExpectedScript(SelectedLeaves(menu_tree), os_distro,
                                     reboot_requested)
        /\ (AtKey /\ Reviewing /\ OnKey("r")) =>
              /\ outcome' # None
              /\ outcome'[1].tag = "RunScript"
        /\ (state = "Running" /\ state' = "Finished") =>
              \/ OnKey("i") /\ ~reboot_requested'
              \/ OnKey("r") /\ reboot_requested'
        /\ state \in {"Finished", "Saving"} =>
              reboot_requested' = reboot_requested
      ]_vars

\* C14 witness: the session ended by the run command after a plain
\* install with a leaf selected; the outcome carries the script without
\* reboot lines.
C14_Witness ==
    /\ pc = "exited"
    /\ outcome # None
    /\ outcome[1].tag = "RunScript"
    /\ ~reboot_requested
    /\ SelectedLeaves(menu_tree) # {}
    /\ outcome[1].script = generate_commands(menu_tree, os_distro, FALSE)

\* C15: in Browsing 'i' moves to Reviewing with reboot false and 'r' with
\* reboot true, whatever the flag was before; nothing but these two
\* commands changes the flag, and a save or a run uses the flag as it
\* stands: the flag of the most recent install command.
C15_RebootFlagIsLastInstall ==
    [][ /\ (AtKey /\ Browsing /\ OnKey("i")) =>
              (state' = "Finished" /\ reboot_requested' = FALSE)
        /\ (AtKey /\ Browsing /\ OnKey("r")) =>
              (state' = "Finished" /\ reboot_requested' = TRUE)
        /\ reboot_requested' # reboot_requested =>
              (AtKey /\ Browsing /\ (OnKey("i") \/ OnKey("r")))
        /\ io' # None =>
              io'[1].content
                  = ExpectedScript(SelectedLeaves(menu_tree), os_distro,
                                   reboot_requested)
        /\ (AtKey /\ Reviewing /\ OnKey("r")) =>
              outcome'
                  = Some(RunScript(ExpectedScript(SelectedLeaves(menu_tree),
                                                  os_distro,
                                                  reboot_requested)))
      ]_vars

\* C15 witness: back in Browsing after an install+reboot (the flag is
\* still set), a key awaited: a plain install from here must clear it.
C15_Witness ==
    /\ Browsing /\ AtKey
    /\ reboot_requested

\* C16: the session starts in Browsing and its state changes only along
\* Browsing -> Reviewing (install, install+reboot), Reviewing -> Saving
\* (save), Saving -> Reviewing (confirm, cancel) and Reviewing -> Browsing
\* (back); never Browsing -> Saving nor Saving -> Browsing.
C16_StateGraph ==
    /\ state = "Running"
    /\ [][ state' # state =>
              /\ AtKey
              /\ \/ /\ state = "Running" /\ state' = "Finished"
                    /\ OnKey("i") \/ OnKey("r")
                 \/ /\ state = "Finished" /\ state' = "Saving"
                    /\ OnKey("s")
                 \/ /\ state = "Saving" /\ state' = "Finished"
                    /\ OnKey("Enter") \/ OnKey("Esc")
                 \/ /\ state = "Finished" /\ state' = "Running"
                    /\ OnKey("Esc") \/ OnKey("Backspace")
         ]_vars

\* C16 witness: back on the review screen after a confirmed save that
\* succeeded, so every edge up to Saving and back has been taken.
C16_Witness ==
    /\ Reviewing /\ AtRender
    /\ save_status_message # None
    /\ save_status_message[1].text = "Saved to "

\* C17: whenever the save command ('s') moves the session from Reviewing
\* to Saving, the filename buffer is empty and the status message absent
\* in the resulting state, whatever saves, cancels and confirms came
\* before.
C17_SaveEntersClean ==
    [][ (AtKey /\ Reviewing /\ OnKey("s")) =>
            /\ state' = "Saving"
            /\ filename_input' = <<>>
            /\ save_status_message' = None ]_vars

\* C17 witness: the save popup is about to be rendered with an empty
\* buffer and no status.
C17_Witness ==
    /\ state = "Saving" /\ AtRender
    /\ filename_input = <<>>
    /\ save_status_message = None

\* C18: confirm (Enter) in Saving never ends the session, whether the
\* write succeeds or fails, the empty filename included (it always fails):
\* the state becomes Reviewing, the filename buffer is cleared, the status
\* message is the success text with the filename on success and the
\* failure text on failure, and the selection, nav_path and the reboot
\* flag are unchanged.
C18_ConfirmRecoversLocally ==
    [][ (AtKey /\ state = "Saving" /\ OnKey("Enter")) =>
            /\ pc' = "draw"
            /\ outcome' = None
            /\ state' = "Finished"
            /\ filename_input' = <<>>
            /\ io' # None
            /\ io'[1].op = "write"
            /\ io'[1].path = filename_input
            /\ filename_input = <<>> => ~io'[1].ok
            /\ save_status_message' # None
            /\ IF io'[1].ok
               THEN /\ save_status_message'[1].text = "Saved to "
                    /\ save_status_message'[1].arg = filename_input
               ELSE save_status_message'[1].text = "Error: "
            /\ UNCHANGED <<menu_tree, nav_path, reboot_requested>> ]_vars

\* C18 witness: back on the review screen after a confirm whose write
\* failed; the failure text is about to be shown.
C18_Witness ==
    /\ Reviewing /\ AtRender
    /\ save_status_message # None
    /\ save_status_message[1].text = "Error: "
    /\ io # None
    /\ ~io[1].ok

\* C19: no step taken in Reviewing or Saving changes a leaf's selected
\* flag, the OS or the reboot flag, and the only write is the confirm in
\* Saving, whose content is the script of that unchanged selection and
\* flag: the script the review screen showed when save was invoked.
C19_WrittenIsReviewed ==
    [][ /\ state \in {"Finished", "Saving"} =>
              /\ menu_tree' = menu_tree
              /\ os_distro' = os_distro
              /\ reboot_requested' = reboot_requested
        /\ io' # None =>
              /\ AtKey /\ state = "Saving"
              /\ OnKey("Enter")
              /\ io'[1].content
                    = generate_commands(menu_tree, os_distro,
                                        reboot_requested)
              /\ io'[1].content
                    = generate_commands(menu_tree', os_distro',
                                        reboot_requested')
      ]_vars

\* C19 witness: a script with a selected leaf and the reboot lines has
\* been written successfully after a filename was typed.
C19_Witness ==
    /\ Reviewing /\ AtRender
    /\ io # None
    /\ io[1].ok
    /\ io[1].path # <<>>
    /\ reboot_requested
    /\ SelectedLeaves(menu_tree) # {}
    /\ io[1].content = generate_commands(menu_tree, os_distro, TRUE)

\* C20: cancel (Esc) in Saving returns to Reviewing with an empty filename
\* buffer and no status message and writes no file, whatever had been
\* typed into the buffer; the session goes on.
C20_CancelDiscards ==
    [][ (AtKey /\ state = "Saving" /\ OnKey("Esc")) =>
            /\ state' = "Finished"
            /\ filename_input' = <<>>
            /\ save_status_message' = None
            /\ io' = None
            /\ pc' = "draw"
            /\ outcome' = None
            /\ UNCHANGED <<menu_tree, nav_path, reboot_requested>> ]_vars

\* C20 witness: in Saving with text typed into the buffer, a key awaited:
\* the state a cancel has to discard.
C20_Witness ==
    /\ state = "Saving" /\ AtKey
    /\ Len(filename_input) = MaxName
    /\ SelectedLeaves(menu_tree) # {}

\* C21: in Saving a character key appends that character at the end of the
\* filename buffer and backspace removes the last character (nothing on an
\* empty buffer); both stay in Saving and change nothing else; and while
\* the state stays Saving the buffer changes in no other way.
C21_FilenameEditing ==
    [][ /\ \A c \in NameChars :
              SavingCharWithin(MaxTyped, c) =>
                 /\ AtKey /\ state = "Saving"
                 /\ Len(filename_input') = Len(filename_input) + 1
                 /\ SubSeq(filename_input', 1, Len(filename_input))
                        = filename_input
                 /\ filename_input'[Len(filename_input')] = c
        /\ SavingBackspace =>
              /\ AtKey /\ state = "Saving"
              /\ filename_input' =
                    IF filename_input = <<>> THEN <<>>
                    ELSE SubSeq(filename_input, 1, Len(filename_input) - 1)
        /\ (state = "Saving" /\ state' = "Saving" /\ pc' # "exited") =>
              /\ \/ filename_input' = filename_input
                 \/ \E c \in CharKeys :
                       filename_input' = filename_input \o <<c>>
                 \/ /\ filename_input # <<>>
                    /\ filename_input' =
                          SubSeq(filename_input, 1, Len(filename_input) - 1)
              /\ UNCHANGED <<menu_tree, nav_path, selected_index, os_distro,
                             reboot_requested, save_status_message,
                             outcome, main_vars>>
              /\ io' = None
      ]_vars

\* C21 witness: two different characters have been typed, the second
\* after the first.
C21_Witness ==
    /\ state = "Saving" /\ AtRender
    /\ Len(filename_input) = 2
    /\ filename_input[1] # filename_input[2]

\* The interactive loop of run_app is running.
InLoop == pc \in {"draw", "read"}

\* main is past the loop, between its branch on RunScript and its return.
RunningTheScript == pc \in {"write_tmp", "set_permissions", "sudo",
                            "remove_file"}

\* C22 (as stated): no file write and no script execution happens before
\* the interactive loop has terminated; the script is executed at most
\* once, only after the loop ended with outcome RunScript.
C22_NoEffectBeforeLoopEnds ==
    [][ /\ io' # None => ~InLoop
        /\ executions' # executions =>
              /\ ~InLoop
              /\ executions = 0
              /\ outcome # None /\ outcome[1].tag = "RunScript" ]_vars

\* C22 (amended): inside the loop the only file-system effect is the write
\* of the save (confirm in Saving) to the path typed by the operator; the
\* temporary script is written and executed only after the loop ended
\* with outcome RunScript, and it is executed at most once.
C22_OnlySaveWritesInLoop ==
    /\ [] /\ executions <= 1
          /\ (RunningTheScript \/ executions > 0 \/ tmp_script # None) =>
                (outcome # None /\ outcome[1].tag = "RunScript")
    /\ [][ /\ (InLoop /\ io' # None) =>
                 /\ AtKey /\ state = "Saving"
                 /\ SavingEnter
                 /\ io'[1].op = "write"
                 /\ io'[1].path = filename_input
                 /\ io'[1].path # TmpScriptPath
           /\ InLoop => UNCHANGED main_vars
           /\ (io' # None /\ io'[1].path = TmpScriptPath) =>
                 (RunningTheScript
                     /\ outcome # None /\ outcome[1].tag = "RunScript")
           /\ executions' # executions =>
                 /\ pc = "sudo"
                 /\ executions = 0 /\ executions' = 1
                 /\ io'[1].op = "exec"
                 /\ io'[1].content = outcome[1].script
         ]_vars

\* C22 witness: main has returned Ok after the loop ended with RunScript;
\* the script was executed once.
C22_Witness ==
    /\ pc = "main_ok"
    /\ executions = 1
    /\ outcome # None /\ outcome[1].tag = "RunScript"

\* main has returned, with Ok or with an error.
MainReturned == pc \in {"main_ok", "main_err"}

\* C23: on a RunScript outcome, once the temporary script has been written
\* it is gone when the program exits, whether marking it executable fails,
\* launching sudo fails, or the script exits with success or failure (a
\* removal that itself fails is not counted).
C23_TmpScriptRemovedAtExit ==
    (MainReturned /\ ~(io # None /\ io[1].op = "remove" /\ ~io[1].ok)) =>
        tmp_script = None

\* The parent of a node other than the root, its depth below the root
\* (the root has depth 0) and the child of the root it descends from.
ParentOf(tree, n) ==
    CHOOSE p \in 1..Len(tree) : n \in Range(ChildrenOf(tree, p))

RECURSIVE DepthOf(_, _)
DepthOf(tree, n) == IF n = Root THEN 0 ELSE 1 + DepthOf(tree, ParentOf(tree, n))

RECURSIVE TopGroupOf(_, _)
TopGroupOf(tree, n) ==
    IF ParentOf(tree, n) = Root THEN n ELSE TopGroupOf(tree, ParentOf(tree, n))

\* C24: a node three or more levels below the root is in the visible view
\* only when nav_path contains the top-level group it descends from.
C24_DeepOnlyThroughTopGroup ==
    \A n \in Range(visible_nodes(menu_tree, nav_path)) :
        DepthOf(menu_tree, n) >= 3 =>
            TopGroupOf(menu_tree, n) \in Range(nav_path)

\* C25: a Group without children can be entered and shows an empty view;
\* there Up, Down and activate change nothing (selected_index stays 0,
\* nav_path and every flag as they were) and back pops the empty group,
\* returning to the view it was entered from.
C25_EmptyGroup ==
    [][ LET V == visible_nodes(menu_tree, nav_path)
        IN  /\ ( /\ RunningActivate(MaxSelectedBrowsing)
                 /\ selected_index < Len(V)
                 /\ IsMenu(menu_tree, V[selected_index + 1])
                 /\ ChildrenOf(menu_tree, V[selected_index + 1]) = <<>> ) =>
                    /\ nav_path' = Append(nav_path, V[selected_index + 1])
                    /\ visible_nodes(menu_tree', nav_path') = <<>>
                    /\ selected_index' = 0
            /\ (AtKey /\ Browsing /\ V = <<>>) =>
                    /\ selected_index = 0
                    /\ Len(nav_path) > 1
                    /\ (RunningDown \/ RunningUp
                           \/ RunningActivate(MaxSelectedBrowsing)) =>
                          UNCHANGED <<selected_index, nav_path, menu_tree,
                                      state>>
                    /\ RunningBack =>
                          /\ nav_path' = SubSeq(nav_path, 1, Len(nav_path) - 1)
                          /\ Last(nav_path)
                                \in Range(visible_nodes(menu_tree', nav_path'))
                          /\ UNCHANGED menu_tree
      ]_vars

\* C25 witness: inside an empty group entered from the root view, a key
\* awaited.
C25_Witness ==
    /\ Browsing /\ AtKey
    /\ Len(nav_path) = 2
    /\ visible_nodes(menu_tree, nav_path) = <<>>
    /\ selected_index = 0

\* C26: nav_path is never empty, starts at the root and holds Menu nodes
\* only; so back never removes the root.
C26_PathOfGroups ==
    /\ Len(nav_path) >= 1
    /\ nav_path[1] = Root
    /\ \A i \in 1..Len(nav_path) : menu_tree[nav_path[i]].kind = "Menu"

\* C26 witness: at the root again, cursor on row 0, after a back (the
\* render is due) with a leaf selected deeper in the catalogue.
C26_Witness ==
    /\ Browsing /\ AtRender
    /\ nav_path = <<Root>>
    /\ selected_index = 0
    /\ \E n \in SelectedLeaves(menu_tree) : DepthOf(menu_tree, n) >= 3

\* The keys tried: every character of CharKeys, the named keys the program
\* binds, and one key ("Tab") it binds nowhere.
Keys == CharKeys \cup {"Down", "Up", "Right", "Enter", "Left", "Backspace",
                       "Esc", "Tab"}

\* The keys with an arm of their own in the match of each session state.
ListedKeys(st) ==
    CASE st = "Running" -> {"q", "i", "r", "Down", "Up", "Right", "Enter",
                            "Left", "Backspace"}
      [] st = "Finished" -> {"q", "s", "r", "Esc", "Backspace"}
      [] st = "Saving" -> CharKeys \cup {"Backspace", "Esc", "Enter"}

\* What a session consists of for C27, and how the handler left the loop
\* (None: the loop continues).
Session(st, path, idx, tree, reboot, name, ending) ==
    [state |-> st, nav_path |-> path, selected_index |-> idx,
     menu_tree |-> tree, reboot_requested |-> reboot,
     filename_input |-> name, ending |-> ending]

SessionNow ==
    Session(state, nav_path, selected_index, menu_tree, reboot_requested,
            filename_input, IF pc = "exited" THEN outcome ELSE None)

\* The one successor of the present session on key k, written out arm by
\* arm from the match of run_app (the result of the file write of
\* Saving/Enter is an input of the environment and shows in
\* save_status_message only).
KeyEffect(k) ==
    LET V    == visible_nodes(menu_tree, nav_path)
        N    == Len(V)
        idx  == IF N = 0 THEN 0 ELSE Min(selected_index, N - 1)
        stay == Session(state, nav_path, idx, menu_tree, reboot_requested,
                        filename_input, None)
        sel  == SelectedLeaves(menu_tree)
    IN  CASE state = "Running" /\ k = "q" ->
                [stay EXCEPT !.ending = Some(Quit)]
          [] state = "Running" /\ k \in {"i", "r"} ->
                [stay EXCEPT !.state = "Finished",
                             !.reboot_requested = (k = "r")]
          [] state = "Running" /\ k = "Down" /\ N > 0 ->
                [stay EXCEPT !.selected_index = (idx + 1) % N]
          [] state = "Running" /\ k = "Up" /\ N > 0 ->
                [stay EXCEPT !.selected_index = (idx + N - 1) % N]
          [] state = "Running" /\ k \in {"Right", "Enter"} /\ N > 0 ->
                IF IsMenu(menu_tree, V[idx + 1])
                THEN [stay EXCEPT !.nav_path = Append(nav_path, V[idx + 1]),
                                  !.selected_index = 0]
                ELSE [stay EXCEPT !.menu_tree =
                         [menu_tree EXCEPT ![V[idx + 1]].selected = ~@]]
          [] state = "Running" /\ k \in {"Left", "Backspace"}
                               /\ Len(nav_path) > 1 ->
                [stay EXCEPT !.nav_path =
                                 SubSeq(nav_path, 1, Len(nav_path) - 1),
                             !.selected_index = 0]
          [] state = "Finished" /\ k = "q" ->
                Session(state, nav_path, selected_index, menu_tree,
                        reboot_requested, filename_input, Some(Quit))
          [] state = "Finished" /\ k = "r" ->
                Session(state, nav_path, selected_index, menu_tree,
                        reboot_requested, filename_input,
                        Some(RunScript(ExpectedScript(sel, os_distro,
                                                      reboot_requested))))
          [] state = "Finished" /\ k = "s" ->
                Session("Saving", nav_path, selected_index, menu_tree,
                        reboot_requested, <<>>, None)
          [] state = "Finished" /\ k \in {"Esc", "Backspace"} ->
                Session("Running", nav_path, selected_index, menu_tree,
                        reboot_requested, filename_input, None)
          [] state = "Saving" /\ k \in CharKeys ->
                Session(state, nav_path, selected_index, menu_tree,
                        reboot_requested, Append(filename_input, k), None)
          [] state = "Saving" /\ k = "Backspace" ->
                Session(state, nav_path, selected_index, menu_tree,
                        reboot_requested,
                        SubSeq(filename_input, 1, Len(filename_input) - 1),
                        None)
          [] state = "Saving" /\ k \in {"Esc", "Enter"} ->
                Session("Finished", nav_path, selected_index, menu_tree,
                        reboot_requested, <<>>, None)
          [] OTHER ->
                IF state = "Running" THEN stay
                ELSE Session(state, nav_path, selected_index, menu_tree,
                             reboot_requested, filename_input, None)

\* The caps of the model (MaxName characters typed, MaxSelected leaves
\* selected) are the only keys the model does not follow.
KeyWithinBounds(k) ==
    /\ (state = "Saving" /\ k \in CharKeys) => Len(filename_input) < MaxName
    /\ (state = "Running" /\ k \in {"Right", "Enter"}
           /\ selected_index < Len(Visible)
           /\ IsItem(menu_tree, Visible[selected_index + 1])
           /\ ~menu_tree[Visible[selected_index + 1]].selected) =>
          Cardinality(SelectedLeaves(menu_tree)) < MaxSelected

\* C27: the transition function is total and deterministic.  Whenever a key
\* is awaited, in Browsing, Reviewing or Saving, the handler of every key
\* can run (no key aborts or blocks); the session it leaves, or the outcome
\* it ends the loop with, is the one successor KeyEffect gives for the
\* state and the key; and a key with no listed effect leaves state,
\* nav_path, selected_index, selection flags, reboot flag and filename
\* buffer unchanged and the loop running.
C27_TotalDeterministic ==
    /\ [] (AtKey => \A k \in Keys : KeyWithinBounds(k) => ENABLED OnKey(k))
    /\ [][ \A k \in Keys :
             OnKey(k) =>
                /\ SessionNow' = KeyEffect(k)
                /\ k \notin ListedKeys(state) =>
                      /\ UNCHANGED <<state, nav_path, selected_index,
                                     menu_tree, reboot_requested,
                                     filename_input>>
                      /\ pc' = "draw" /\ outcome' = None
       ]_vars

\* C27 witness: the filename prompt awaiting a key, a character already
\* typed, reached from a review with a selection made below the root.
C27_Witness ==
    /\ state = "Saving" /\ AtKey
    /\ filename_input # <<>>
    /\ SelectedLeaves(menu_tree) # {}
    /\ Len(nav_path) > 1

\* The selected leaves in depth-first pre-order of the catalogue.
SelectedInPreOrder(tree) ==
    SelectSeq(PreOrder(tree, Root), LAMBDA n : n \in SelectedLeaves(tree))

\* C28: get_selected_items gives the names of exactly the selected leaves
\* in the depth-first pre-order in which get_selected_scripts gives their
\* payloads: both sequences have one entry per selected leaf and the i-th
\* name and the i-th payload are those of the i-th selected leaf.
C28_NamesParallelScripts ==
    LET names   == get_selected_items(menu_tree)
        scripts == get_selected_scripts(menu_tree, Root)
        order   == SelectedInPreOrder(menu_tree)
    IN  /\ Len(names) = Len(order)
        /\ Len(scripts) = Len(order)
        /\ \A i \in 1..Len(order) :
              /\ names[i] = menu_tree[order[i]].name
              /\ scripts[i] = menu_tree[order[i]].script_fn

\* C28 witness: two leaves of different names selected.
C28_Witness ==
    /\ Browsing /\ AtRender
    /\ Len(get_selected_items(menu_tree)) = 2
    /\ get_selected_items(menu_tree)[1] # get_selected_items(menu_tree)[2]
    /\ Len(get_selected_scripts(menu_tree, Root)) = 2

\* The payloads a catalogue offers for selection.
Offered(tree) == {tree[n].script_fn : n \in Leaves(tree)}

\* C29: with the distribution Unknown the catalogue offers a narrower set
\* of selectable entries than the catalogue of Rhel and that of Centos.
C29_UnknownCatalogueNarrower ==
    os_distro = "Unknown" =>
        \A os \in {"Rhel", "Centos"} :
            /\ Offered(menu_tree) \subseteq Offered(build_menu_tree(os))
            /\ Offered(menu_tree) # Offered(build_menu_tree(os))

\* C30: from the step that leaves Browsing for Reviewing, through every
\* step taken in Reviewing and Saving (save, typing, cancel, confirm,
\* redraws), to the step back into Browsing, every selected flag, nav_path
\* and selected_index stay as they were when Browsing was left; the
\* redraw that follows in Browsing changes none of them either.
C30_ReviewLeavesBrowsingAlone ==
    [][ /\ ((state = "Running" /\ state' # "Running")
               \/ state \in {"Finished", "Saving"}) =>
              UNCHANGED <<menu_tree, nav_path, selected_index>>
        /\ (state = "Running" /\ Draw) =>
              UNCHANGED <<menu_tree, nav_path, selected_index>>
      ]_vars

\* C30 witness: back in Browsing after a review asked with reboot (the
\* flag is set on that way only), below the root, the cursor off row 0, a
\* leaf selected.
C30_Witness ==
    /\ Browsing /\ AtRender
    /\ reboot_requested
    /\ Len(nav_path) > 1
    /\ selected_index > 0
    /\ SelectedLeaves(menu_tree) # {}

\* C31: the rows of the menu panel correspond one to one with the view:
\* as many rows as nodes, row i carrying the name and the mark of view[i];
\* at the root a row is indented exactly when its node is a child of a
\* top-level group (its parent is not the root), inside a submenu never;
\* and when a key is awaited in Browsing on a view that is not empty, the
\* cursor is on a row and is the index activate uses, so the highlighted
\* row is the node activate acts on.
C31_RowsMatchView ==
    LET V == visible_nodes(menu_tree, nav_path)
        R == menu_strings(menu_tree, nav_path)
    IN  /\ Len(R) = Len(V)
        /\ \A i \in 1..Len(V) :
              /\ R[i].name = menu_tree[V[i]].name
              /\ R[i].mark = IF IsMenu(menu_tree, V[i]) THEN ">"
                             ELSE IF menu_tree[V[i]].selected THEN "[x]"
                             ELSE "[ ]"
              /\ R[i].indent = (Len(nav_path) = 1
                                   /\ ParentOf(menu_tree, V[i]) # Root)
        /\ (Browsing /\ AtKey /\ V # <<>>) =>
              /\ selected_index < Len(R)
              /\ clamp_index(selected_index, Len(V)) = selected_index

\* C31 witness: at the root view a key is awaited with the cursor on an
\* indented row of a selected leaf, a row without indentation below it.
C31_Witness ==
    LET R == menu_strings(menu_tree, nav_path)
    IN  /\ Browsing /\ AtKey
        /\ Len(nav_path) = 1
        /\ selected_index + 2 <= Len(R)
        /\ R[selected_index + 1].indent
        /\ R[selected_index + 1].mark = "[x]"
        /\ ~R[selected_index + 2].indent

\* C32: a status message set by a confirm in Saving is shown by the first
\* render after the confirm and cleared by that same render.  A message is
\* present only on the review screen with the render due and the buffer
\* empty; the confirm leaves one; the only step taken with a message
\* present is the render of the review screen (which shows it) and that
\* render removes it; so it is shown once and no input event is ever
\* handled with a message present.
C32_StatusShownOnce ==
    /\ [] (save_status_message # None =>
              /\ pc = "draw" /\ state = "Finished" /\ filename_input = <<>>)
    /\ [][ /\ (AtKey /\ state = "Saving" /\ OnKey("Enter")) =>
                 (save_status_message' # None /\ pc' = "draw")
           /\ save_status_message # None =>
                 /\ Draw
                 /\ save_status_message' = None
                 /\ pc' = "read"
           /\ pc = "read" => save_status_message = None
         ]_vars

\* C32 witness: the review screen is about to be rendered with the message
\* of a successful save to a file whose name has two characters.
C32_Witness ==
    /\ Reviewing /\ AtRender
    /\ save_status_message # None
    /\ save_status_message[1].text = "Saved to "
    /\ Len(save_status_message[1].arg) = 2

\* C33: the script preview of the Browsing screen never holds the reboot
\* lines, also after a return from a review entered with reboot: with the
\* flag set, the preview is the reviewed script less its three last lines
\* (blank, echo, reboot).
C33_PreviewWithoutReboot ==
    Browsing =>
        /\ RebootCmd \notin Range(script_preview)
        /\ RebootEcho \notin Range(script_preview)
        /\ reboot_requested =>
              LET reviewed == generate_commands(menu_tree, os_distro,
                                                reboot_requested)
              IN  /\ Len(reviewed) = Len(script_preview) + 3
                  /\ SubSeq(reviewed, 1, Len(script_preview)) = script_preview

\* C33 witness: the Browsing screen is about to be rendered at the root
\* with a leaf selected after a review that was entered with reboot.
C33_Witness ==
    /\ Browsing /\ AtRender
    /\ reboot_requested
    /\ nav_path = <<Root>>
    /\ SelectedLeaves(menu_tree) # {}
    /\ Len(script_preview) > HeaderLines

\* The three lists of the flat-list program, one after the other.
RdAllItems == repo_list \o virt_list \o desktop_list

\* The offset of the active list in RdAllItems.
RdActiveOffset ==
    CASE active_menu_item \in {"Repos", "Home"} -> 0
      [] active_menu_item = "Virt" -> Len(repo_list)
      [] active_menu_item = "Desktop" -> Len(repo_list) + Len(virt_list)

\* C34: in the flat-list program, in every state menu_index is 0, 1 or 2,
\* the content cursor is below the length of the active list, or 0 when
\* that list is empty, and the Content panel is not active while the
\* active menu is Home; Down and Up in the menu wrap modulo 3; Down and Up
\* in the content panel move the cursor by one and stay at the last and
\* the first row; toggle flips the flag of the item under the cursor and
\* nothing else, and changes nothing on an empty list.
C34_RdCursors ==
    /\ [] ( /\ menu_index \in {0, 1, 2}
            /\ IF rd_active_list = <<>> THEN rd_selected_index = 0
               ELSE rd_selected_index \in 0..(Len(rd_active_list) - 1)
            /\ active_panel = "Content" => active_menu_item # "Home" )
    /\ [][ /\ RdMenuDown =>
                 menu_index' = IF menu_index = 2 THEN 0 ELSE menu_index + 1
           /\ RdMenuUp =>
                 menu_index' = IF menu_index = 0 THEN 2 ELSE menu_index - 1
           /\ RdContentDown =>
                 rd_selected_index' =
                     IF rd_selected_index + 1 < Len(rd_active_list)
                     THEN rd_selected_index + 1 ELSE rd_selected_index
           /\ RdContentUp =>
                 rd_selected_index' =
                     IF rd_selected_index = 0 THEN 0
                     ELSE rd_selected_index - 1
           /\ RdContentToggle =>
                 /\ Len(RdAllItems') = Len(RdAllItems)
                 /\ \A i \in 1..Len(RdAllItems) :
                       /\ RdAllItems'[i][1] = RdAllItems[i][1]
                       /\ (RdAllItems'[i][2] # RdAllItems[i][2])
                             <=> (/\ rd_active_list # <<>>
                                  /\ i = RdActiveOffset + rd_selected_index + 1)
                 /\ rd_active_list = <<>> =>
                       UNCHANGED <<repo_list, virt_list, desktop_list>>
         ]_vars

\* C34 witness: with the distribution Unknown the content panel shows the
\* empty list of repositories, an item of another list selected earlier
\* and the menu cursor wrapped back to 0.
C34_Witness ==
    /\ rd_pc = "loop"
    /\ rd_os_distro = "Unknown"
    /\ active_panel = "Content"
    /\ active_menu_item = "Repos"
    /\ repo_list = <<>>
    /\ rd_selected_index = 0
    /\ RdSelectedCount = 1

============================================================================
